---- MODULE Spec2Model ----
(***************************************************************************)
(* CHIP-8 interpreter (class Chip8) and its driver.                        *)
(*                                                                         *)
(* The interpreter's fields are the variables; cycle(), tick(), loadRom()  *)
(* and the driver's keyboard writes are the actions.  execute() is an      *)
(* operator on a record of the fields, written branch by branch in the     *)
(* order of the if-chain of Chip8::execute.                                *)
(*                                                                         *)
(* memory[] is indexed without a bounds check.  An access at an index of   *)
(* 4096 or more is undefined behaviour; the model resolves it by a         *)
(* nondeterministic choice (UBOutcomes) made for each cycle:               *)
(*   "layout"  the access lands on the member the class layout puts at     *)
(*             that offset (stack, I, PC, SP, the timers, framebuffer,     *)
(*             keyboard, updateDisplayFlag, pressedKey), little-endian;    *)
(*   "stray"   the access hits storage that is not a field of the model:   *)
(*             a store changes nothing, a load yields some byte;           *)
(*   "fault"   the process is killed by a signal (non-zero status).        *)
(***************************************************************************)
EXTENDS Integers, Sequences, FiniteSets, TLC

\* ------------------------------------------------------------ constants

PROGRAM_START_ADDRESS == 512
FONTSET_START_ADDRESS == 80
FRAMEBUFFER_WIDTH == 64
FRAMEBUFFER_HEIGHT == 32
MEMORY_SIZE == 4096
FONTSET_SIZE == 80
STACK_SIZE == 16
NUM_REGISTERS == 16
NUM_KEYS == 16

\* Offsets of the members that follow memory[] in class Chip8, as indices of
\* memory[] (offsetof(member) - offsetof(memory)).
OFF_STACK == 4096
OFF_I == 4128
OFF_PC == 4130
OFF_SP == 4132
OFF_DELAY == 4133
OFF_SOUND == 4134
OFF_RNG == 4136
OFF_FRAMEBUFFER == 9136
OFF_KEYBOARD == 11184
OFF_UPDATEFLAG == 11202
OFF_PRESSEDKEY == 11204
OFF_END == 11208

fontset == <<
  240, 144, 144, 144, 240,
   32,  96,  32,  32, 112,
  240,  16, 240, 128, 240,
  240,  16, 240,  16, 240,
  144, 144, 240,  16,  16,
  240, 128, 240,  16, 240,
  240, 128, 240, 144, 240,
  240,  16,  32,  64,  64,
  240, 144, 240, 144, 240,
  240, 144, 240,  16, 240,
  240, 144, 240, 144, 144,
  224, 144, 224, 144, 224,
  240, 128, 128, 128, 240,
  224, 144, 144, 144, 224,
  240, 128, 240, 128, 240,
  240, 128, 240, 128, 128 >>

\* ------------------------------------------------------------ integers

Pow2(n) == 2 ^ n

U8(n) == n % 256

U16(n) == n % 65536

\* bit b (0 = least significant) of n
Bit(n, b) == (n \div Pow2(b)) % 2

\* bitwise operators on bytes
BitAnd(a, b) ==
  LET f[i \in 0..8] ==
        IF i = 8 THEN 0
        ELSE (IF Bit(a, i) = 1 /\ Bit(b, i) = 1 THEN Pow2(i) ELSE 0) + f[i + 1]
  IN f[0]

BitOr(a, b) ==
  LET f[i \in 0..8] ==
        IF i = 8 THEN 0
        ELSE (IF Bit(a, i) = 1 \/ Bit(b, i) = 1 THEN Pow2(i) ELSE 0) + f[i + 1]
  IN f[0]

BitXor(a, b) ==
  LET f[i \in 0..8] ==
        IF i = 8 THEN 0
        ELSE (IF Bit(a, i) # Bit(b, i) THEN Pow2(i) ELSE 0) + f[i + 1]
  IN f[0]

\* byte k (0 = least significant) of n replaced by v
WithByte(n, k, v) ==
  n - ((n \div Pow2(8 * k)) % 256) * Pow2(8 * k) + v * Pow2(8 * k)

\* byte k (0 = least significant) of the two's complement pattern of a 32-bit
\* int n
IntByte(n, k) == (n \div Pow2(8 * k)) % 256

\* the 32-bit int n with byte k of its pattern replaced by v
WithIntByte(n, k, v) ==
  LET b == [j \in 0..3 |-> IF j = k THEN v ELSE IntByte(n, j)]
  IN b[0] + 256 * b[1] + 65536 * b[2]
       + 16777216 * (IF b[3] >= 128 THEN b[3] - 256 ELSE b[3])

\* ------------------------------------------------------------ state

VARIABLES
  registers,          \* uint8_t registers[16]
  memory,             \* uint8_t memory[4096]
  stack,              \* uint16_t stack[16]
  I,                  \* uint16_t I
  PC,                 \* uint16_t PC
  SP,                 \* uint8_t SP
  delayTimer,         \* uint8_t delayTimer
  soundTimer,         \* uint8_t soundTimer
  rng,                \* std::mt19937 rng(42), as the number of values drawn
  framebuffer,        \* uint8_t framebuffer[64 * 32]
  keyboard,           \* bool keyboard[16]
  updateDisplayFlag,  \* bool updateDisplayFlag
  pressedKey,         \* int pressedKey
  proc,               \* the process: "running", "exited" (std::exit), "killed"
  exitCode,           \* its exit status once it is not running
  opcode,             \* the opcode fetched by the last cycle()
  stackIdx,           \* the index of stack[] the last cycle() used, -1 if none
  loadResult,         \* what the last loadRom() returned: "none" before any call
  filename,           \* the path the last loadRom() was given: "" before any call
  loads,              \* the number of loadRom() calls made
  mainAt,             \* where main() is: "start", a step of the loop, "done"
  audioPlaying,       \* bool audioPlaying of main
  running,            \* bool running of main
  countTick,          \* int countTick of main: the frames begun
  cycleIdx,           \* int i of main's for loop: the cycles of the frame made
  countInstruction,   \* int countInstruction of main
  mainReturn,         \* the value main returned, -1 while it has not
  acquired,           \* the SDL resources held, in the order they were acquired
  released,           \* the SDL resources released, in the order of the calls
  audioDevice,        \* SDL_AudioDeviceID audioDevice of main is not 0
  audioLock,          \* who holds the audio device's lock: "free", "main", "callback"
  stream,             \* Uint8* stream of the running audioCallback, as bytes
  phase,              \* double phase of main, in 1/44100 of a period (2 pi)
  callbackAt,         \* where the audio thread is: "idle", "entered", "filled"
  callbacks,          \* the number of audioCallback invocations made
  screen,             \* the cells the renderer last drew, << >> before any redraw
  frameDrew,          \* a CLS or DXYN was executed since the frame's tick
  frameRedrawn        \* the frame's render step redrew the cells

chipVars == << registers, memory, stack, I, PC, SP, delayTimer, soundTimer, rng,
               framebuffer, keyboard, updateDisplayFlag, pressedKey, proc,
               exitCode, opcode, stackIdx >>

\* the locals of main
\* the audio thread's view: the device lock, the buffer and the phase
audioVars == << audioLock, stream, phase, callbackAt, callbacks >>

\* the SDL resources and main's return
sdlVars == << mainReturn, acquired, released, audioDevice >>

\* what the frames have done
frameVars == << countInstruction, screen, frameDrew, frameRedrawn >>

driverVars == << mainAt, audioPlaying, running, countTick, cycleIdx, audioVars,
                 sdlVars, frameVars >>

vars == << chipVars, loadResult, filename, loads, driverVars >>

\* The interpreter's fields as one record, on which the methods operate.
Self ==
  [ registers |-> registers, memory |-> memory, stack |-> stack, I |-> I,
    PC |-> PC, SP |-> SP, delayTimer |-> delayTimer, soundTimer |-> soundTimer,
    rng |-> rng, framebuffer |-> framebuffer, keyboard |-> keyboard,
    updateDisplayFlag |-> updateDisplayFlag, pressedKey |-> pressedKey,
    proc |-> proc, exitCode |-> exitCode, opcode |-> opcode,
    stackIdx |-> stackIdx ]

Becomes(s) ==
  /\ registers' = s.registers
  /\ memory' = s.memory
  /\ stack' = s.stack
  /\ I' = s.I
  /\ PC' = s.PC
  /\ SP' = s.SP
  /\ delayTimer' = s.delayTimer
  /\ soundTimer' = s.soundTimer
  /\ rng' = s.rng
  /\ framebuffer' = s.framebuffer
  /\ keyboard' = s.keyboard
  /\ updateDisplayFlag' = s.updateDisplayFlag
  /\ pressedKey' = s.pressedKey
  /\ proc' = s.proc
  /\ exitCode' = s.exitCode
  /\ opcode' = s.opcode
  /\ stackIdx' = s.stackIdx

\* the constructor copying the font to address 0 instead of 0x50
Constructed_FontAtZero ==
  [ registers |-> [i \in 0..(NUM_REGISTERS - 1) |-> 0],
    memory |-> [a \in 0..(MEMORY_SIZE - 1) |->
                  IF a < FONTSET_SIZE THEN fontset[a + 1] ELSE 0],
    stack |-> [i \in 0..(STACK_SIZE - 1) |-> 0],
    I |-> 0, PC |-> PROGRAM_START_ADDRESS, SP |-> 0, delayTimer |-> 0,
    soundTimer |-> 0, rng |-> 0,
    framebuffer |-> [i \in 0..(FRAMEBUFFER_WIDTH * FRAMEBUFFER_HEIGHT - 1) |-> 0],
    keyboard |-> [k \in 0..(NUM_KEYS - 1) |-> FALSE],
    updateDisplayFlag |-> FALSE, pressedKey |-> -1, proc |-> "running",
    exitCode |-> 0, opcode |-> 0, stackIdx |-> -1 ]

\* Chip8::Chip8(): every array zeroed, the font copied to 0x50.
Constructed ==
  [ registers |-> [i \in 0..(NUM_REGISTERS - 1) |-> 0],
    memory |-> [a \in 0..(MEMORY_SIZE - 1) |->
                  IF a >= FONTSET_START_ADDRESS
                     /\ a < FONTSET_START_ADDRESS + FONTSET_SIZE
                  THEN fontset[a - FONTSET_START_ADDRESS + 1]
                  ELSE 0],
    stack |-> [i \in 0..(STACK_SIZE - 1) |-> 0],
    I |-> 0,
    PC |-> PROGRAM_START_ADDRESS,
    SP |-> 0,
    delayTimer |-> 0,
    soundTimer |-> 0,
    rng |-> 0,
    framebuffer |-> [i \in 0..(FRAMEBUFFER_WIDTH * FRAMEBUFFER_HEIGHT - 1) |-> 0],
    keyboard |-> [k \in 0..(NUM_KEYS - 1) |-> FALSE],
    updateDisplayFlag |-> FALSE,
    pressedKey |-> -1,
    proc |-> "running",
    exitCode |-> 0,
    opcode |-> 0,
    stackIdx |-> -1 ]

\* std::exit(1) that returns to the caller instead
Exit1_Returns(s) == s

\* std::exit(1)
Exit1(s) == [s EXCEPT !.proc = "exited", !.exitCode = 1]

\* the process killed by SIGSEGV
Killed(s) == [s EXCEPT !.proc = "killed", !.exitCode = 139]

\* ------------------------------------------------------------ memory[]

\* How an out-of-bounds access of one cycle is resolved, and the byte a stray
\* load yields.
UBOutcomes == {"layout", "stray", "fault"}

UBBytes == {0, 255}

UBChoices == [how : UBOutcomes, byte : UBBytes]

\* The byte at index a >= 4096 of memory[] under the class layout.
LayoutLoad(s, a, ub) ==
  CASE a >= OFF_STACK /\ a < OFF_I ->
         (s.stack[(a - OFF_STACK) \div 2] \div Pow2(8 * ((a - OFF_STACK) % 2))) % 256
    [] a >= OFF_I /\ a < OFF_PC -> (s.I \div Pow2(8 * (a - OFF_I))) % 256
    [] a >= OFF_PC /\ a < OFF_SP -> (s.PC \div Pow2(8 * (a - OFF_PC))) % 256
    [] a = OFF_SP -> s.SP
    [] a = OFF_DELAY -> s.delayTimer
    [] a = OFF_SOUND -> s.soundTimer
    [] a >= OFF_FRAMEBUFFER /\ a < OFF_KEYBOARD -> s.framebuffer[a - OFF_FRAMEBUFFER]
    [] a >= OFF_KEYBOARD /\ a < OFF_KEYBOARD + NUM_KEYS ->
         IF s.keyboard[a - OFF_KEYBOARD] THEN 1 ELSE 0
    [] a = OFF_UPDATEFLAG -> IF s.updateDisplayFlag THEN 1 ELSE 0
    [] a >= OFF_PRESSEDKEY /\ a < OFF_END ->
         IntByte(s.pressedKey, a - OFF_PRESSEDKEY)
    [] OTHER -> ub.byte

\* memory[a] as an rvalue.  A faulting load is decided by LoadFaults.
Load(s, a, ub) ==
  IF a < MEMORY_SIZE THEN s.memory[a]
  ELSE IF ub.how = "layout" THEN LayoutLoad(s, a, ub)
  ELSE ub.byte

LoadFaults(a, ub) == a >= MEMORY_SIZE /\ ub.how = "fault"

\* The store of byte v at index a >= 4096 of memory[] under the class layout.
LayoutStore(s, a, v) ==
  CASE a >= OFF_STACK /\ a < OFF_I ->
         [s EXCEPT !.stack[(a - OFF_STACK) \div 2] = WithByte(@, (a - OFF_STACK) % 2, v)]
    [] a >= OFF_I /\ a < OFF_PC -> [s EXCEPT !.I = WithByte(@, a - OFF_I, v)]
    [] a >= OFF_PC /\ a < OFF_SP -> [s EXCEPT !.PC = WithByte(@, a - OFF_PC, v)]
    [] a = OFF_SP -> [s EXCEPT !.SP = v]
    [] a = OFF_DELAY -> [s EXCEPT !.delayTimer = v]
    [] a = OFF_SOUND -> [s EXCEPT !.soundTimer = v]
    [] a >= OFF_FRAMEBUFFER /\ a < OFF_KEYBOARD ->
         [s EXCEPT !.framebuffer[a - OFF_FRAMEBUFFER] = v]
    [] a >= OFF_KEYBOARD /\ a < OFF_KEYBOARD + NUM_KEYS ->
         [s EXCEPT !.keyboard[a - OFF_KEYBOARD] = (v # 0)]
    [] a = OFF_UPDATEFLAG -> [s EXCEPT !.updateDisplayFlag = (v # 0)]
    [] a >= OFF_PRESSEDKEY /\ a < OFF_END ->
         [s EXCEPT !.pressedKey = WithIntByte(@, a - OFF_PRESSEDKEY, v)]
    [] OTHER -> s

\* memory[a] = v.  Nothing more is executed once the process is dead.
Store(s, a, v, ub) ==
  IF s.proc # "running" THEN s
  ELSE IF a < MEMORY_SIZE THEN [s EXCEPT !.memory[a] = v]
  ELSE IF ub.how = "layout" THEN LayoutStore(s, a, v)
  ELSE IF ub.how = "fault" THEN Killed(s)
  ELSE s

\* keyboard[k] as an rvalue; k outside 0..15 reads past the array.
KeyLoad(s, k, ub) ==
  IF k >= 0 /\ k < NUM_KEYS THEN s.keyboard[k]
  ELSE IF OFF_KEYBOARD + k >= 0 THEN Load(s, OFF_KEYBOARD + k, ub) # 0
  ELSE ub.byte # 0

KeyLoadFaults(k, ub) == (k < 0 \/ k >= NUM_KEYS) /\ ub.how = "fault"

\* stack[i] as an rvalue; i >= 16 reads past the array.
StackLoad(s, i, ub) ==
  IF i < STACK_SIZE THEN s.stack[i]
  ELSE IF ub.how = "layout"
  THEN LayoutLoad(s, OFF_STACK + 2 * i, ub) + 256 * LayoutLoad(s, OFF_STACK + 2 * i + 1, ub)
  ELSE ub.byte * 257

StackLoadFaults(i, ub) == i >= STACK_SIZE /\ ub.how = "fault"

\* ------------------------------------------------------------ the generator

\* The first values of std::mt19937 seeded with 42, modulo 256.
RngValues == << 102, 179, 92, 14, 106, 71, 188, 20, 102, 121, 210, 214, 74, 202, 87, 116 >>

\* ------------------------------------------------------------ opcode fields

OpX(op) == (op \div 256) % 16

OpY(op) == (op \div 16) % 16

OpKK(op) == op % 256

OpNNN(op) == op % 4096

OpN(op) == op % 16

OpClass(op) == op \div 4096

\* ------------------------------------------------------------ DRW

\* the inner loop setting the pixel (|= 1) where the code toggles it (^= 1)
RECURSIVE DrawBits_Or(_, _, _, _, _, _)
DrawBits_Or(s, sprite, row, bit, xPos, yPos) ==
  IF bit >= 8 THEN s
  ELSE IF Bit(sprite, 7 - bit) = 1
  THEN LET idx == ((yPos + row) % 32) * 64 + ((xPos + bit) % 64)
           s1 == IF s.framebuffer[idx] # 0 THEN [s EXCEPT !.registers[15] = 1] ELSE s
           s2 == [s1 EXCEPT !.framebuffer[idx] = BitOr(@, 1)]
       IN DrawBits_Or(s2, sprite, row, bit + 1, xPos, yPos)
  ELSE DrawBits_Or(s, sprite, row, bit + 1, xPos, yPos)

\* the inner loop clipping the sprite at the right and bottom edges instead of
\* wrapping each pixel
RECURSIVE DrawBits_Clip(_, _, _, _, _, _)
DrawBits_Clip(s, sprite, row, bit, xPos, yPos) ==
  IF bit >= 8 THEN s
  ELSE IF Bit(sprite, 7 - bit) = 1 /\ (xPos % 64) + bit < 64 /\ (yPos % 32) + row < 32
  THEN LET idx == ((yPos % 32) + row) * 64 + (xPos % 64) + bit
           s1 == IF s.framebuffer[idx] # 0 THEN [s EXCEPT !.registers[15] = 1] ELSE s
           s2 == [s1 EXCEPT !.framebuffer[idx] = BitXor(@, 1)]
       IN DrawBits_Clip(s2, sprite, row, bit + 1, xPos, yPos)
  ELSE DrawBits_Clip(s, sprite, row, bit + 1, xPos, yPos)

\* The inner loop of DRW over the 8 bits of one sprite row.
RECURSIVE DrawBits(_, _, _, _, _, _)
DrawBits(s, sprite, row, bit, xPos, yPos) ==
  IF bit >= 8 THEN s
  ELSE IF Bit(sprite, 7 - bit) = 1
  THEN LET px == (xPos + bit) % 64
           py == (yPos + row) % 32
           idx == py * 64 + px
           s1 == IF s.framebuffer[idx] # 0 THEN [s EXCEPT !.registers[15] = 1] ELSE s
           s2 == [s1 EXCEPT !.framebuffer[idx] = BitXor(@, 1)]
       IN DrawBits(s2, sprite, row, bit + 1, xPos, yPos)
  ELSE DrawBits(s, sprite, row, bit + 1, xPos, yPos)

\* The outer loop of DRW over the rows of the sprite.
RECURSIVE DrawRows(_, _, _, _, _, _)
DrawRows(s, row, height, xPos, yPos, ub) ==
  IF row >= height THEN [s EXCEPT !.updateDisplayFlag = TRUE]
  ELSE IF LoadFaults(s.I + row, ub) THEN Killed(s)
  ELSE DrawRows(DrawBits(s, Load(s, s.I + row, ub), row, 0, xPos, yPos),
                row + 1, height, xPos, yPos, ub)

\* ------------------------------------------------------------ LD [I], Vx and LD Vx, [I]

RECURSIVE StoreRegisters(_, _, _, _)
StoreRegisters(s, i, x, ub) ==
  IF i > x \/ s.proc # "running" THEN s
  ELSE StoreRegisters(Store(s, s.I + i, s.registers[i], ub), i + 1, x, ub)

RECURSIVE LoadRegisters(_, _, _, _)
LoadRegisters(s, i, x, ub) ==
  IF i > x THEN s
  ELSE IF LoadFaults(s.I + i, ub) THEN Killed(s)
  ELSE LoadRegisters([s EXCEPT !.registers[i] = Load(s, s.I + i, ub)], i + 1, x, ub)

\* ------------------------------------------------------------ LD Vx, K

\* The scan for the first pressed key: pressedKey after the for loop.
FirstPressed(s) ==
  IF \E k \in 0..(NUM_KEYS - 1) : s.keyboard[k]
  THEN CHOOSE k \in 0..(NUM_KEYS - 1) :
         s.keyboard[k] /\ \A j \in 0..(k - 1) : ~s.keyboard[j]
  ELSE -1

\* WaitKey completing as soon as a key is latched, without waiting for its release
WaitKey_OnPress(s, x, ub) ==
  LET s1 == IF s.pressedKey = -1 THEN [s EXCEPT !.pressedKey = FirstPressed(s)] ELSE s
  IN IF s1.pressedKey # -1
     THEN [s1 EXCEPT !.registers[x] = U8(s1.pressedKey), !.pressedKey = -1]
     ELSE [s1 EXCEPT !.PC = U16(@ - 2)]

WaitKey(s, x, ub) ==
  LET s1 == IF s.pressedKey = -1 THEN [s EXCEPT !.pressedKey = FirstPressed(s)] ELSE s
  IN IF s1.pressedKey # -1 /\ KeyLoadFaults(s1.pressedKey, ub) THEN Killed(s1)
     ELSE IF s1.pressedKey # -1 /\ ~KeyLoad(s1, s1.pressedKey, ub)
     THEN [s1 EXCEPT !.registers[x] = U8(s1.pressedKey), !.pressedKey = -1]
     ELSE [s1 EXCEPT !.PC = U16(@ - 2)]

\* ------------------------------------------------------------ instructions
\* Each operator is one branch of Chip8::execute, applied to the fields after
\* cycle() has advanced PC by 2.

ExecCLS(s) ==
  [s EXCEPT !.framebuffer = [i \in 0..(FRAMEBUFFER_WIDTH * FRAMEBUFFER_HEIGHT - 1) |-> 0],
            !.updateDisplayFlag = TRUE]

ExecRET(s, ub) ==
  IF s.SP = 0 THEN Exit1(s)
  ELSE IF StackLoadFaults(s.SP - 1, ub) THEN Killed(s)
  ELSE [s EXCEPT !.SP = s.SP - 1,
                 !.PC = StackLoad(s, s.SP - 1, ub),
                 !.stackIdx = s.SP - 1]

\* ExecCALL with the overflow check off by one (SP > 16)
ExecCALL_OffByOne(s, address) ==
  IF s.SP > 16 THEN Exit1(s)
  ELSE [s EXCEPT !.stack[s.SP] = s.PC,
                 !.SP = s.SP + 1,
                 !.PC = address,
                 !.stackIdx = s.SP]

ExecCALL(s, address) ==
  IF s.SP >= 16 THEN Exit1(s)
  ELSE [s EXCEPT !.stack[s.SP] = s.PC,
                 !.SP = s.SP + 1,
                 !.PC = address,
                 !.stackIdx = s.SP]

\* a skip that is taken whatever the condition
ExecSkipIf_Always(s, cond) == [s EXCEPT !.PC = U16(@ + 2)]

ExecSkipIf(s, cond) == IF cond THEN [s EXCEPT !.PC = U16(@ + 2)] ELSE s

ExecADDByte(s, x, add) == [s EXCEPT !.registers[x] = U8(@ + add)]

ExecADD(s, x, y) ==
  LET sum == s.registers[x] + s.registers[y]
      s1 == [s EXCEPT !.registers[15] = IF sum > 255 THEN 1 ELSE 0]
  IN [s1 EXCEPT !.registers[x] = sum % 256]

ExecSUB(s, x, y) ==
  LET s1 == [s EXCEPT !.registers[15] = 0]
      s2 == IF s1.registers[x] >= s1.registers[y]
            THEN [s1 EXCEPT !.registers[15] = 1] ELSE s1
  IN [s2 EXCEPT !.registers[x] = U8(s2.registers[x] - s2.registers[y])]

ExecSHR(s, x) ==
  LET s1 == [s EXCEPT !.registers[15] = 0]
      s2 == IF s1.registers[x] % 2 = 1 THEN [s1 EXCEPT !.registers[15] = 1] ELSE s1
  IN [s2 EXCEPT !.registers[x] = s2.registers[x] \div 2]

ExecSUBN(s, x, y) ==
  LET s1 == [s EXCEPT !.registers[15] = 0]
      s2 == IF s1.registers[y] >= s1.registers[x]
            THEN [s1 EXCEPT !.registers[15] = 1] ELSE s1
  IN [s2 EXCEPT !.registers[x] = U8(s2.registers[y] - s2.registers[x])]

ExecSHL(s, x) ==
  LET s1 == [s EXCEPT !.registers[15] = 0]
      s2 == IF BitAnd(s1.registers[x], 128) > 0
            THEN [s1 EXCEPT !.registers[15] = 1] ELSE s1
  IN [s2 EXCEPT !.registers[x] = U8(s2.registers[x] * 2)]

ExecRND(s, x, byte) ==
  [s EXCEPT !.registers[x] = BitAnd(RngValues[s.rng + 1], byte), !.rng = s.rng + 1]

ExecDRW(s, x, y, height, ub) ==
  LET xPos == s.registers[x]
      yPos == s.registers[y]
  IN DrawRows([s EXCEPT !.registers[15] = 0], 0, height, xPos, yPos, ub)

ExecSKP(s, x) == ExecSkipIf(s, s.keyboard[BitAnd(s.registers[x], 15)])

ExecSKNP(s, x) == ExecSkipIf(s, ~s.keyboard[BitAnd(s.registers[x], 15)])

ExecBCD(s, x, ub) ==
  LET s1 == Store(s, s.I, s.registers[x] \div 100, ub)
      s2 == Store(s1, s1.I + 1, (s1.registers[x] \div 10) % 10, ub)
  IN Store(s2, s2.I + 2, s2.registers[x] % 10, ub)

\* Chip8::execute(opcode)
execute(s, op, ub) ==
  LET x == OpX(op)
      y == OpY(op)
      c == OpClass(op)
  IN
  IF op = 224 THEN ExecCLS(s)
  ELSE IF op = 238 THEN ExecRET(s, ub)
  ELSE IF c = 0 THEN s
  ELSE IF c = 1 THEN [s EXCEPT !.PC = OpNNN(op)]
  ELSE IF c = 2 THEN ExecCALL(s, OpNNN(op))
  ELSE IF c = 3 THEN ExecSkipIf(s, s.registers[x] = OpKK(op))
  ELSE IF c = 4 THEN ExecSkipIf(s, s.registers[x] # OpKK(op))
  ELSE IF c = 5 /\ OpN(op) = 0 THEN ExecSkipIf(s, s.registers[x] = s.registers[y])
  ELSE IF c = 6 THEN [s EXCEPT !.registers[x] = OpKK(op)]
  ELSE IF c = 7 THEN ExecADDByte(s, x, OpKK(op))
  ELSE IF c = 8 /\ OpN(op) = 0 THEN [s EXCEPT !.registers[x] = s.registers[y]]
  ELSE IF c = 8 /\ OpN(op) = 1
       THEN [s EXCEPT !.registers[x] = BitOr(s.registers[x], s.registers[y])]
  ELSE IF c = 8 /\ OpN(op) = 2
       THEN [s EXCEPT !.registers[x] = BitAnd(s.registers[x], s.registers[y])]
  ELSE IF c = 8 /\ OpN(op) = 3
       THEN [s EXCEPT !.registers[x] = BitXor(s.registers[x], s.registers[y])]
  ELSE IF c = 8 /\ OpN(op) = 4 THEN ExecADD(s, x, y)
  ELSE IF c = 8 /\ OpN(op) = 5 THEN ExecSUB(s, x, y)
  ELSE IF c = 8 /\ OpN(op) = 6 THEN ExecSHR(s, x)
  ELSE IF c = 8 /\ OpN(op) = 7 THEN ExecSUBN(s, x, y)
  ELSE IF c = 8 /\ OpN(op) = 14 THEN ExecSHL(s, x)
  ELSE IF c = 9 /\ OpN(op) = 0 THEN ExecSkipIf(s, s.registers[x] # s.registers[y])
  ELSE IF c = 10 THEN [s EXCEPT !.I = OpNNN(op)]
  ELSE IF c = 11 THEN [s EXCEPT !.PC = U16(s.registers[0] + OpNNN(op))]
  ELSE IF c = 12 THEN ExecRND(s, x, OpKK(op))
  ELSE IF c = 13 THEN ExecDRW(s, x, y, OpN(op), ub)
  ELSE IF c = 14 /\ OpKK(op) = 158 THEN ExecSKP(s, x)
  ELSE IF c = 14 /\ OpKK(op) = 161 THEN ExecSKNP(s, x)
  ELSE IF c = 15 /\ OpKK(op) = 7 THEN [s EXCEPT !.registers[x] = s.delayTimer]
  ELSE IF c = 15 /\ OpKK(op) = 10 THEN WaitKey(s, x, ub)
  ELSE IF c = 15 /\ OpKK(op) = 21 THEN [s EXCEPT !.delayTimer = s.registers[x]]
  ELSE IF c = 15 /\ OpKK(op) = 24 THEN [s EXCEPT !.soundTimer = s.registers[x]]
  ELSE IF c = 15 /\ OpKK(op) = 30 THEN [s EXCEPT !.I = U16(s.I + s.registers[x])]
  ELSE IF c = 15 /\ OpKK(op) = 41
       THEN [s EXCEPT !.I = FONTSET_START_ADDRESS + s.registers[x] * 5]
  ELSE IF c = 15 /\ OpKK(op) = 51 THEN ExecBCD(s, x, ub)
  ELSE IF c = 15 /\ OpKK(op) = 85 THEN StoreRegisters(s, 0, x, ub)
  ELSE IF c = 15 /\ OpKK(op) = 101 THEN LoadRegisters(s, 0, x, ub)
  ELSE Exit1(s)

\* tick without the > 0 tests: a timer at 0 wraps to 255
tick_Wraps(s) ==
  [s EXCEPT !.delayTimer = U8(s.delayTimer - 1), !.soundTimer = U8(s.soundTimer - 1)]

\* tick leaving the sound timer alone
tick_KeepsSound(s) ==
  IF s.delayTimer > 0 THEN [s EXCEPT !.delayTimer = s.delayTimer - 1] ELSE s

\* Chip8::tick()
tick(s) ==
  LET s1 == IF s.delayTimer > 0 THEN [s EXCEPT !.delayTimer = s.delayTimer - 1] ELSE s
  IN IF s1.soundTimer > 0 THEN [s1 EXCEPT !.soundTimer = s1.soundTimer - 1] ELSE s1

\* Chip8::fetchOpCode()
fetchOpCode(s, ub) == Load(s, s.PC, ub) * 256 + Load(s, s.PC + 1, ub)

\* Chip8::cycle()
cycle(s, ub) ==
  IF LoadFaults(s.PC, ub) \/ LoadFaults(s.PC + 1, ub) THEN Killed(s)
  ELSE LET op == fetchOpCode(s, ub)
       IN execute([s EXCEPT !.opcode = op, !.PC = U16(s.PC + 2), !.stackIdx = -1],
                  op, ub)

\* ------------------------------------------------------------ loadRom

\* a byte of the file read into a char buffer (char is signed)
ToChar(b) == IF b >= 128 THEN b - 256 ELSE b

\* A ROM file: its path, whether the path opens, and its bytes.
File(path, opens, bytes) == [path |-> path, opens |-> opens, bytes |-> bytes]

\* the copy loop stopping one byte early (i < romSize - 1)
CopyInside_DropsLast(s, bytes) ==
  [s EXCEPT !.memory =
     [a \in 0..(MEMORY_SIZE - 1) |->
        IF a >= PROGRAM_START_ADDRESS /\ a - PROGRAM_START_ADDRESS < Len(bytes) - 1
        THEN U8(ToChar(bytes[a - PROGRAM_START_ADDRESS + 1]))
        ELSE s.memory[a]]]

\* the copy loop writing from FONTSET_START_ADDRESS on
CopyInside_AtFont(s, bytes) ==
  [s EXCEPT !.memory =
     [a \in 0..(MEMORY_SIZE - 1) |->
        IF a >= FONTSET_START_ADDRESS /\ a - FONTSET_START_ADDRESS < Len(bytes)
        THEN U8(ToChar(bytes[a - FONTSET_START_ADDRESS + 1]))
        ELSE s.memory[a]]]

\* The copy loop of loadRom: memory[PROGRAM_START_ADDRESS + i] = buffer[i] for
\* the bytes that stay inside memory[] ...
CopyInside(s, bytes) ==
  [s EXCEPT !.memory =
     [a \in 0..(MEMORY_SIZE - 1) |->
        IF a >= PROGRAM_START_ADDRESS /\ a - PROGRAM_START_ADDRESS < Len(bytes)
        THEN U8(ToChar(bytes[a - PROGRAM_START_ADDRESS + 1]))
        ELSE s.memory[a]]]

\* ... and for those at an index of MEMORY_SIZE or more.
RECURSIVE CopyOutside(_, _, _, _)
CopyOutside(s, bytes, i, ub) ==
  IF i >= Len(bytes) THEN s
  ELSE CopyOutside(Store(s, PROGRAM_START_ADDRESS + i, U8(ToChar(bytes[i + 1])), ub),
                   bytes, i + 1, ub)

\* the size check off by one: a file of 3585 bytes passes
RomTooLarge_OffByOne(romSize) == romSize > MEMORY_SIZE - PROGRAM_START_ADDRESS + 1

\* The size check of loadRom: romSize > maxRomSize.
RomTooLarge(romSize) == romSize > MEMORY_SIZE - PROGRAM_START_ADDRESS

\* Chip8::loadRom(filename): the value returned ...
loadRomReturns(file) == file.opens /\ ~RomTooLarge(Len(file.bytes))

\* ... and the fields afterwards.
loadRom(s, file, ub) ==
  IF ~file.opens THEN s
  ELSE IF RomTooLarge(Len(file.bytes)) THEN s
  ELSE CopyOutside(CopyInside(s, file.bytes), file.bytes,
                   MEMORY_SIZE - PROGRAM_START_ADDRESS, ub)

\* ------------------------------------------------------------ programs

\* the bytes of a sequence of opcodes, big-endian
Prog(ops) ==
  [i \in 1..(2 * Len(ops)) |->
     IF i % 2 = 1 THEN ops[(i + 1) \div 2] \div 256 ELSE ops[i \div 2] % 256]

\* opcode words
Word(c, x, y, n) == c * 4096 + x * 256 + y * 16 + n

CLS == 224

RET == 238

JP(addr) == 4096 + addr

CALL(addr) == 2 * 4096 + addr

LDB(x, kk) == 6 * 4096 + x * 256 + kk

LDI(addr) == 10 * 4096 + addr

FX(x, kk) == 15 * 4096 + x * 256 + kk

\* the address of the k-th opcode (k >= 0) of a loaded program
At(k) == PROGRAM_START_ADDRESS + 2 * k

\* d nested subroutines: main calls sub 1 and then spins; sub k calls sub k+1
\* and returns; sub d returns.
NestRom(d) ==
  Prog(<< CALL(At(2)), JP(At(1)) >>
       \o [i \in 1..(2 * d) |->
             IF i % 2 = 0 THEN RET
             ELSE IF (i + 1) \div 2 = d THEN RET
             ELSE CALL(At(2 + i + 1))])

\* a return with an empty stack, after a call has returned
UnderflowRom == Prog(<< CALL(At(2)), RET, RET >>)

\* wait for a key into V3, then spin
KeyRom == Prog(<< FX(3, 10), JP(At(1)) >>)

\* set both timers from registers, read the delay timer back, then spin
TimerRom ==
  Prog(<< LDB(0, 3), FX(0, 21), LDB(1, 2), FX(1, 24), FX(2, 7), JP(At(4)) >>)

\* I = 0xFFF + 37 = 4132, then V0, V1 stored at memory[4132], memory[4133]
StrayStoreRom ==
  Prog(<< LDI(4095), LDB(0, 37), FX(0, 30), LDB(0, 200), LDB(1, 2), FX(1, 85),
          FX(2, 7), JP(At(7)) >>)

\* a subroutine that stores V0 at memory[4096] before it returns
StrayStackRom ==
  Prog(<< CALL(At(2)), JP(At(1)),
          LDI(4095), LDB(0, 1), FX(0, 30), LDB(0, 16), FX(0, 85), RET,
          JP(At(8)) >>)

Roms ==
  { NestRom(1), NestRom(2), NestRom(STACK_SIZE), NestRom(STACK_SIZE + 1), UnderflowRom,
    KeyRom, TimerRom, StrayStoreRom, StrayStackRom }

\* the keypad keys the driver's events press and release
PadKeys == {3, 10}

\* ------------------------------------------------------------ actions

\* the fields are those of record s
Is(s) ==
  /\ registers = s.registers
  /\ memory = s.memory
  /\ stack = s.stack
  /\ I = s.I
  /\ PC = s.PC
  /\ SP = s.SP
  /\ delayTimer = s.delayTimer
  /\ soundTimer = s.soundTimer
  /\ rng = s.rng
  /\ framebuffer = s.framebuffer
  /\ keyboard = s.keyboard
  /\ updateDisplayFlag = s.updateDisplayFlag
  /\ pressedKey = s.pressedKey
  /\ proc = s.proc
  /\ exitCode = s.exitCode
  /\ opcode = s.opcode
  /\ stackIdx = s.stackIdx

\* Chip8 chip; in main
Init ==
  /\ Is(Constructed)
  /\ loadResult = "none"
  /\ filename = ""
  /\ loads = 0
  /\ mainAt = "start"
  /\ audioPlaying = FALSE
  /\ running = TRUE
  /\ countTick = 0
  /\ cycleIdx = 0
  /\ countInstruction = 0
  /\ mainReturn = -1
  /\ acquired = << >>
  /\ released = << >>
  /\ audioDevice = FALSE
  /\ audioLock = "free"
  /\ stream = << >>
  /\ phase = 0
  /\ callbackAt = "idle"
  /\ callbacks = 0
  /\ screen = << >>
  /\ frameDrew = FALSE
  /\ frameRedrawn = FALSE

\* The resolutions of the stores of a load that reach index 4096 or more.
UBChoicesOfLoad(file) ==
  IF PROGRAM_START_ADDRESS + Len(file.bytes) > MEMORY_SIZE
  THEN UBChoices ELSE {[how |-> "stray", byte |-> 0]}

\* chip.loadRom(path)
LoadCall(file) ==
  /\ proc = "running"
  /\ \E ub \in UBChoicesOfLoad(file) : Becomes(loadRom(Self, file, ub))
  /\ loadResult' = IF loadRomReturns(file) THEN "true" ELSE "false"
  /\ filename' = file.path
  /\ loads' = loads + 1

\* chip.loadRom(rom) as main calls it: once, right after construction
LoadRom(file) ==
  /\ loads = 0
  /\ LoadCall(file)
  /\ UNCHANGED driverVars

\* The model knows the generator's first values only: a cycle that would draw
\* more is not taken.
RngKnown(s, ub) ==
  \/ LoadFaults(s.PC, ub)
  \/ LoadFaults(s.PC + 1, ub)
  \/ OpClass(fetchOpCode(s, ub)) # 12
  \/ s.rng < Len(RngValues)

\* Whether a cycle() from s can index an array out of bounds: the fetch at PC
\* and PC + 1, memory[I + i] for i up to 15, keyboard[pressedKey], stack[SP - 1].
\* Where it cannot, every choice of UBChoices gives the same cycle.
MayStray(s) ==
  \/ s.PC + 1 >= MEMORY_SIZE
  \/ s.I + 15 >= MEMORY_SIZE
  \/ s.pressedKey < -1
  \/ s.pressedKey >= NUM_KEYS
  \/ s.SP > STACK_SIZE

UBChoicesOf(s) ==
  IF MayStray(s) THEN UBChoices ELSE {[how |-> "stray", byte |-> 0]}

\* chip.cycle()
CycleCall ==
  /\ proc = "running"
  /\ loadResult = "true"
  /\ \E ub \in UBChoicesOf(Self) :
       /\ RngKnown(Self, ub)
       /\ Becomes(cycle(Self, ub))
  /\ UNCHANGED << loadResult, filename, loads >>

\* chip.cycle(), at any time
Cycle ==
  /\ CycleCall
  /\ UNCHANGED driverVars

\* chip.tick()
TickCall ==
  /\ proc = "running"
  /\ loadResult = "true"
  /\ Becomes(tick(Self))
  /\ UNCHANGED << loadResult, filename, loads >>

\* chip.tick(), at any time
Tick ==
  /\ TickCall
  /\ UNCHANGED driverVars

\* chip.keyboard[key] = (event.type == SDL_KEYDOWN)
KeyWrite(key, down) ==
  /\ proc = "running"
  /\ loadResult = "true"
  /\ keyboard' = [keyboard EXCEPT ![key] = down]
  /\ UNCHANGED << registers, memory, stack, I, PC, SP, delayTimer, soundTimer, rng,
                  framebuffer, updateDisplayFlag, pressedKey, proc, exitCode, opcode,
                  stackIdx, loadResult, filename, loads >>

\* a key event of the driver's event loop, at any time
KeyEvent(key, down) ==
  /\ KeyWrite(key, down)
  /\ UNCHANGED driverVars

Next ==
  \/ \E rom \in Roms : LoadRom(File("rom.ch8", TRUE, rom))
  \/ Cycle
  \/ Tick
  \/ \E key \in PadKeys, down \in BOOLEAN : KeyEvent(key, down)

Spec == Init /\ [][Next]_vars

\* ------------------------------------------------------------ claims: helpers

\* The opcode a cycle() from the current state fetches, when PC and PC + 1 are
\* inside memory[].
FetchInside == PC + 1 < MEMORY_SIZE

Fetched == memory[PC] * 256 + memory[PC + 1]

\* The step is a cycle() that fetches an opcode satisfying Is, inside memory[].
IsCALL(op) == OpClass(op) = 2

IsRET(op) == op = 238

IsLDK(op) == OpClass(op) = 15 /\ OpKK(op) = 10

IsLDDT(op) == OpClass(op) = 15 /\ OpKK(op) = 21

IsLDST(op) == OpClass(op) = 15 /\ OpKK(op) = 24

IsADDXY(op) == OpClass(op) = 8 /\ OpN(op) = 4

IsSUBXY(op) == OpClass(op) = 8 /\ OpN(op) = 5

IsSHR(op) == OpClass(op) = 8 /\ OpN(op) = 6

IsSHL(op) == OpClass(op) = 8 /\ OpN(op) = 14

\* ------------------------------------------------------------ claims C1 - C6

\* C1: in every reachable state 0 <= SP <= 16, and the index of stack[] that a
\* CALL or RET uses is in 0..15.
C1_StackPointerInRange ==
  /\ SP >= 0
  /\ SP <= 16
  /\ stackIdx >= -1
  /\ stackIdx <= 15

\* C2: a CALL fetched at a with SP = s < 16 leaves stack[s] = a + 2, SP = s + 1
\* and PC = NNN; a RET with SP = s + 1 sets PC = stack[s] and SP = s; and no step
\* changes a pending return address (a slot below SP), so the RET that matches a
\* CALL returns to the address after that CALL, last in first out.
C2_CallReturnRoundTrip ==
  [][ /\ (Cycle /\ FetchInside /\ IsCALL(Fetched) /\ SP < 16)
           => /\ stack'[SP] = PC + 2
              /\ SP' = SP + 1
              /\ PC' = OpNNN(Fetched)
      /\ (Cycle /\ FetchInside /\ IsRET(Fetched) /\ SP > 0 /\ SP <= 16)
           => /\ PC' = stack[SP - 1]
              /\ SP' = SP - 1
      /\ \A i \in 0..15 : i < SP => stack'[i] = stack[i]
    ]_vars

\* C3: a CALL with SP < 16 succeeds; a CALL with SP = 16 and a RET with SP = 0
\* terminate the process with a non-zero status, leaving stack[] and SP as they
\* were and PC at the next instruction; no step is taken by a process that has
\* terminated.
C3_StackExhaustionFatal ==
  [][ /\ proc = "running"
      /\ (Cycle /\ FetchInside /\ IsCALL(Fetched) /\ SP < 16)
           => /\ proc' = "running"
              /\ SP' = SP + 1
      /\ (Cycle /\ FetchInside
            /\ \/ IsCALL(Fetched) /\ SP = 16
               \/ IsRET(Fetched) /\ SP = 0)
           => /\ proc' # "running"
              /\ exitCode' # 0
              /\ stack' = stack
              /\ SP' = SP
              /\ PC' = PC + 2
    ]_vars

\* The 17th nested CALL has terminated the process.
C3_Witness ==
  /\ proc = "exited"
  /\ exitCode = 1
  /\ SP = 16
  /\ IsCALL(opcode)
  /\ \A i \in 0..15 : stack[i] # 0

\* C4: the cycles of LD Vx, K fetched at a.  With no key latched and none
\* pressed: PC = a, pressedKey = -1, registers unchanged.  With no key latched
\* and some key pressed: the lowest pressed key is latched, PC = a, registers
\* unchanged.  With a key latched and still pressed: PC = a.  With a key latched
\* and not pressed: Vx = the latched key, pressedKey = -1, PC = a + 2.
C4_KeyWait ==
  [][ (Cycle /\ FetchInside /\ IsLDK(Fetched) /\ pressedKey >= -1 /\ pressedKey <= 15)
        => LET anyDown == \E k \in 0..15 : keyboard[k]
               lowest == CHOOSE k \in 0..15 :
                           keyboard[k] /\ \A j \in 0..15 : keyboard[j] => k <= j
           IN /\ (pressedKey = -1 /\ ~anyDown)
                    => PC' = PC /\ pressedKey' = -1 /\ registers' = registers
              /\ (pressedKey = -1 /\ anyDown)
                    => PC' = PC /\ pressedKey' = lowest /\ registers' = registers
              /\ (pressedKey # -1 /\ keyboard[pressedKey])
                    => PC' = PC /\ pressedKey' = pressedKey /\ registers' = registers
              /\ (pressedKey # -1 /\ ~keyboard[pressedKey])
                    => /\ registers' = [registers EXCEPT ![OpX(Fetched)] = pressedKey]
                       /\ pressedKey' = -1
                       /\ PC' = PC + 2
    ]_vars

\* Key 10 was latched while key 3 was up, released, and stored in V3.
C4_Witness ==
  /\ registers[3] = 10
  /\ pressedKey = -1
  /\ PC = At(1)
  /\ IsLDK(opcode)

\* C5: a tick() decrements each timer that is above 0 by exactly 1 and leaves a
\* timer that is 0 at 0, each independently of the other; both stay in 0..255.
C5_TimerDecay ==
  [][ /\ Tick => /\ delayTimer' = IF delayTimer > 0 THEN delayTimer - 1 ELSE 0
                 /\ soundTimer' = IF soundTimer > 0 THEN soundTimer - 1 ELSE 0
      /\ delayTimer' >= 0 /\ delayTimer' <= 255
      /\ soundTimer' >= 0 /\ soundTimer' <= 255
    ]_vars

\* The delay timer, set to 3, was read as 1 after two ticks and has reached 0
\* while the sound timer, set later, is still running.
C5_Witness ==
  /\ registers[0] = 3
  /\ registers[2] = 1
  /\ delayTimer = 0
  /\ soundTimer = 1

\* C6: a step that is not a tick() changes delayTimer only if it is a cycle of
\* LD DT, Vx, and soundTimer only if it is a cycle of LD ST, Vx.
C6_TimersDecoupled ==
  [][ /\ (delayTimer' # delayTimer /\ ~Tick) => (Cycle /\ FetchInside /\ IsLDDT(Fetched))
      /\ (soundTimer' # soundTimer /\ ~Tick) => (Cycle /\ FetchInside /\ IsLDST(Fetched))
    ]_vars

\* ------------------------------------------------------------ loadRom on its own

\* The number of loadRom() calls on one interpreter.
MaxLoads == 2

\* A program that leaves registers, I, the delay timer, the framebuffer, the
\* stack, SP and PC changed, and then spins inside its subroutine.
LoadProg ==
  Prog(<< LDB(0, 7), LDI(FONTSET_START_ADDRESS), FX(0, 21), Word(13, 0, 0, 1),
          CALL(At(6)), JP(At(5)), JP(At(6)) >>)

\* a file of n bytes: the program, then bytes that depend on the seed
FileOf(n, seed) ==
  [i \in 1..n |-> IF i <= Len(LoadProg) THEN LoadProg[i] ELSE (i * 7 + seed) % 256]

MaxRomSize == MEMORY_SIZE - PROGRAM_START_ADDRESS

\* the files given to a fresh interpreter, and to one that has run
FirstFiles ==
  { File("prog.ch8", TRUE, LoadProg),
    File("full3.ch8", TRUE, FileOf(MaxRomSize, 3)),
    File("over.ch8", TRUE, FileOf(MaxRomSize + 1, 5)),
    File("missing.ch8", FALSE, << >>) }

LoadFiles ==
  FirstFiles \cup
  { File("empty.ch8", TRUE, << >>),
    File("one.ch8", TRUE, << 96 >>),
    File("two.ch8", TRUE, << 96, 9 >>),
    File("hundred.ch8", TRUE, FileOf(100, 1)),
    File("full9.ch8", TRUE, FileOf(MaxRomSize, 9)),
    File("huge.ch8", TRUE, FileOf(MEMORY_SIZE, 5)),
    File("locked.ch8", FALSE, FileOf(100, 11)) }

LoadFirst(file) ==
  /\ loads = 0
  /\ LoadCall(file)
  /\ UNCHANGED driverVars

\* the driver leaves when loadRom returns false, so only an interpreter whose
\* load succeeded is given another file
LoadAgain(file) ==
  /\ loads > 0
  /\ loadResult = "true"
  /\ loads < MaxLoads
  /\ LoadCall(file)
  /\ UNCHANGED driverVars

LoadNext ==
  \/ \E file \in FirstFiles : LoadFirst(file)
  \/ \E file \in LoadFiles : LoadAgain(file)
  \/ Cycle

SpecLoad == Init /\ [][LoadNext]_vars

\* ------------------------------------------------------------ claims C7 - C9

\* C7: loadRom on a file of N <= 3584 bytes that opens returns true, makes
\* memory[0x200 + i] byte i of the file for every i < N, and leaves every other
\* byte of memory and every other field as it was.
C7_RomPlacement ==
  [][ \A file \in LoadFiles :
        (loads' = loads + 1 /\ filename' = file.path
           /\ file.opens /\ Len(file.bytes) <= 3584)
          => /\ loadResult' = "true"
             /\ \A a \in 0..(MEMORY_SIZE - 1) :
                  memory'[a] = IF a >= 512 /\ a < 512 + Len(file.bytes)
                               THEN file.bytes[a - 512 + 1]
                               ELSE memory[a]
             /\ UNCHANGED << registers, stack, I, PC, SP, delayTimer, soundTimer, rng,
                             framebuffer, keyboard, updateDisplayFlag, pressedKey,
                             proc, exitCode >>
    ]_vars

\* A file of 3584 bytes was loaded over a program that had run: its last byte is
\* at 0xFFF, and the registers, the stack and the framebuffer are the program's.
C7_Witness ==
  /\ loads = 2
  /\ filename = "full9.ch8"
  /\ loadResult = "true"
  /\ memory[4095] = (3584 * 7 + 9) % 256
  /\ registers[0] = 7
  /\ SP = 1
  /\ framebuffer[7 * 64 + 7] = 1

\* C8: loadRom on a file of 3585 bytes or more, or on a path that does not open,
\* returns false and changes no field; a file of exactly 3584 bytes is accepted,
\* and no store of its load lands outside memory[].
C8_RomRejection ==
  [][ \A file \in LoadFiles :
        (loads' = loads + 1 /\ filename' = file.path)
          => /\ (~file.opens \/ Len(file.bytes) >= 3585)
                  => /\ loadResult' = "false"
                     /\ UNCHANGED chipVars
             /\ (file.opens /\ Len(file.bytes) = 3584)
                  => /\ loadResult' = "true"
                     /\ UNCHANGED << registers, stack, I, PC, SP, delayTimer, soundTimer,
                                     rng, framebuffer, keyboard, updateDisplayFlag,
                                     pressedKey, proc, exitCode >>
    ]_vars

\* A load was rejected on an interpreter whose program had run.
C8_Witness ==
  /\ loads = 2
  /\ filename = "huge.ch8"
  /\ loadResult = "false"
  /\ registers[0] = 7
  /\ SP = 1
  /\ memory[4095] = (3584 * 7 + 3) % 256

\* C9: right after construction PC = 0x200, SP = 0, I = 0, both timers are 0,
\* updateDisplayFlag is false, pressedKey = -1, the registers, the stack, the
\* framebuffer and the keyboard are all zero, memory[0x50..0x9F] is the font
\* table in glyph order 0..F, and every other byte of memory is 0.
C9_InitialState ==
  loads = 0 =>
    /\ PC = 512 /\ SP = 0 /\ I = 0
    /\ delayTimer = 0 /\ soundTimer = 0
    /\ updateDisplayFlag = FALSE
    /\ pressedKey = -1
    /\ \A i \in 0..15 : registers[i] = 0 /\ stack[i] = 0 /\ keyboard[i] = FALSE
    /\ \A i \in 0..2047 : framebuffer[i] = 0
    /\ \A a \in 0..4095 :
         memory[a] = IF a >= 80 /\ a <= 159 THEN fontset[a - 80 + 1] ELSE 0
    /\ << memory[80], memory[84], memory[85], memory[89] >> = << 240, 240, 32, 112 >>
    /\ << memory[155], memory[156], memory[158], memory[159] >> = << 240, 128, 128, 128 >>

\* The interpreter as constructed, before any call on it.
C9_Witness ==
  /\ loads = 0
  /\ loadResult = "none"
  /\ proc = "running"
  /\ memory[FONTSET_START_ADDRESS] = fontset[1]

\* ------------------------------------------------------------ arithmetic programs

\* the register contents the programs set up: << Vx, Vy >>; VF is set to 250
AluValues == { << 1, 2 >>, << 200, 100 >>, << 255, 1 >>, << 100, 200 >> }

\* the low nibbles of the 8XYN instructions exercised
AluKinds == { 4 }

\* LD Vx, a; LD Vy, b; LD VF, c; 8XYN; then spin
AluRom(n, x, y, a, b) ==
  Prog(<< LDB(x, a), LDB(y, b), LDB(15, 250), Word(8, x, y, n), JP(At(4)) >>)

AluRoms ==
  { AluRom(n, x, y, v[1], v[2]) :
      n \in AluKinds, x \in 0..(NUM_REGISTERS - 1), y \in 0..(NUM_REGISTERS - 1),
      v \in AluValues }

AluNext ==
  \/ \E rom \in AluRoms : LoadRom(File("alu.ch8", TRUE, rom))
  \/ Cycle

SpecAlu == Init /\ [][AluNext]_vars

\* ------------------------------------------------------------ claim C10

AluRomsFor(kinds) ==
  { AluRom(n, x, y, v[1], v[2]) :
      n \in kinds, x \in 0..(NUM_REGISTERS - 1), y \in 0..(NUM_REGISTERS - 1),
      v \in AluValues }

SubNext ==
  \/ \E rom \in AluRomsFor({ 5 }) : LoadRom(File("sub.ch8", TRUE, rom))
  \/ Cycle

SpecSub == Init /\ [][SubNext]_vars

ShiftNext ==
  \/ \E rom \in AluRomsFor({ 6, 14 }) : LoadRom(File("shift.ch8", TRUE, rom))
  \/ Cycle

SpecShift == Init /\ [][ShiftNext]_vars

\* ------------------------------------------------------------ claims C11 - C12

\* C11: after SUB Vx, Vy (8XY5), for every x and y, VF is 1 if the old Vx is at
\* least the old Vy and 0 otherwise, and for x other than F Vx is
\* (old Vx - old Vy) mod 256, the old values being those before the instruction
\* wrote VF; the cases x = F and y = F are included.
C11_SubBorrow ==
  [][ (Cycle /\ FetchInside /\ IsSUBXY(Fetched))
        => LET x == OpX(Fetched)
               y == OpY(Fetched)
           IN /\ registers'[15] = IF registers[x] >= registers[y] THEN 1 ELSE 0
              /\ x # 15 => registers'[x] = (registers[x] - registers[y]) % 256
    ]_vars

\* C12: after SHR Vx (8XY6) VF is bit 0 of the old Vx and Vx is old Vx div 2;
\* after SHL Vx (8XYE) VF is bit 7 of the old Vx and Vx is (old Vx * 2) mod 256;
\* for every x, so that for x = F the flag bit is what remains in VF; no other
\* register is written.
C12_Shifts ==
  [][ /\ (Cycle /\ FetchInside /\ IsSHR(Fetched))
           => LET x == OpX(Fetched)
              IN /\ registers'[15] = registers[x] % 2
                 /\ x # 15 => registers'[x] = registers[x] \div 2
                 /\ \A r \in 0..14 : r # x => registers'[r] = registers[r]
      /\ (Cycle /\ FetchInside /\ IsSHL(Fetched))
           => LET x == OpX(Fetched)
              IN /\ registers'[15] = (registers[x] \div 128) % 2
                 /\ x # 15 => registers'[x] = (registers[x] * 2) % 256
                 /\ \A r \in 0..14 : r # x => registers'[r] = registers[r]
    ]_vars

\* ------------------------------------------------------------ skip programs

\* the register contents and the immediate bytes the skip programs use
SkipBytes == { 0, 7, 255 }

SkipValues == { << 7, 7 >>, << 7, 9 >> }

\* LD Vx, v; 3XKK or 4XKK; then a spin at each of the two addresses it can end at
SkipByteRom(c, x, v, kk) ==
  Prog(<< LDB(x, v), Word(c, x, kk \div 16, kk % 16), JP(At(2)), JP(At(3)) >>)

\* LD Vx, a; LD Vy, b; 5XY0 or 9XY0; then the two spins
SkipRegRom(c, x, y, a, b) ==
  Prog(<< LDB(x, a), LDB(y, b), Word(c, x, y, 0), JP(At(3)), JP(At(4)) >>)

SkipRoms ==
  { SkipByteRom(c, x, v, kk) :
      c \in { 3, 4 }, x \in 0..(NUM_REGISTERS - 1), v \in SkipBytes, kk \in SkipBytes }
  \cup
  { SkipRegRom(c, x, y, v[1], v[2]) :
      c \in { 5, 9 }, x \in 0..(NUM_REGISTERS - 1), y \in 0..(NUM_REGISTERS - 1),
      v \in SkipValues }

SkipNext ==
  \/ \E rom \in SkipRoms : LoadRom(File("skip.ch8", TRUE, rom))
  \/ Cycle

SpecSkip == Init /\ [][SkipNext]_vars

IsSkip(op) ==
  \/ OpClass(op) \in { 3, 4 }
  \/ OpClass(op) \in { 5, 9 } /\ OpN(op) = 0

\* ------------------------------------------------------------ claim C13

\* C13: a cycle that fetches a skip instruction at address a ends with
\* PC = a + 4 when its condition holds and PC = a + 2 otherwise; the condition is
\* Vx = KK for 3XKK, Vx # KK for 4XKK, Vx = Vy for 5XY0 and Vx # Vy for 9XY0; no
\* register, memory, stack, timer or framebuffer cell changes.
C13_ConditionalSkips ==
  [][ (Cycle /\ FetchInside /\ IsSkip(Fetched))
        => LET op == Fetched
               vx == registers[OpX(op)]
               vy == registers[OpY(op)]
               cond == CASE OpClass(op) = 3 -> vx = OpKK(op)
                         [] OpClass(op) = 4 -> vx # OpKK(op)
                         [] OpClass(op) = 5 -> vx = vy
                         [] OpClass(op) = 9 -> vx # vy
           IN /\ PC' = IF cond THEN PC + 4 ELSE PC + 2
              /\ UNCHANGED << registers, memory, stack, SP, I, delayTimer, soundTimer,
                              framebuffer >>
    ]_vars

\* SNE V3, V5 with V3 = 7 and V5 = 9 was fetched at the third opcode and skipped
\* the fourth.
C13_Witness ==
  /\ opcode = Word(9, 3, 5, 0)
  /\ registers[3] = 7
  /\ registers[5] = 9
  /\ PC = At(4)

\* ------------------------------------------------------------ draw programs

DRW(x, y, n) == Word(13, x, y, n)

\* the coordinates, the heights and the sprite addresses the draw programs use:
\* inside the screen, across its right and bottom edges, and beyond 63 and 31;
\* the font, the program itself, and the last byte of memory[]
DrawXs == { 0, 60, 255 }

DrawYs == { 0, 30, 255 }

DrawHeights == { 0, 1, 4, 15 }

DrawAddresses == { FONTSET_START_ADDRESS, PROGRAM_START_ADDRESS, MEMORY_SIZE - 1 }

\* the registers named by X and Y of the DRW
DrawRegisters == { << 0, 1 >>, << 15, 1 >> }

\* LD Vx, vx; LD Vy, vy; LD I, addr; the same DRW three times; then spin
DrawRom(x, y, vx, vy, n, addr) ==
  Prog(<< LDB(y, vy), LDB(x, vx), LDI(addr), DRW(x, y, n), DRW(x, y, n), DRW(x, y, n),
          JP(At(6)) >>)

\* a sprite of two rows at 0xFFF, drawn inside a subroutine: its second row is
\* read at memory[4096]
StrayDrawRom ==
  Prog(<< CALL(At(1)), LDI(MEMORY_SIZE - 1), LDB(0, 0), DRW(0, 0, 2), JP(At(4)) >>)

DrawRoms ==
  { DrawRom(r[1], r[2], vx, vy, n, addr) :
      r \in DrawRegisters, vx \in DrawXs, vy \in DrawYs, n \in DrawHeights,
      addr \in DrawAddresses }
  \cup { StrayDrawRom }

DrawNext ==
  \/ \E rom \in DrawRoms : LoadRom(File("draw.ch8", TRUE, rom))
  \/ Cycle

SpecDraw == Init /\ [][DrawNext]_vars

IsDRW(op) == OpClass(op) = 13

\* ------------------------------------------------------------ claim C14

\* C14: DXYN toggles the framebuffer cell at ((Vx + b) mod 64, (Vy + r) mod 32)
\* for each row r < N and bit b < 8 (b = 0 the most significant) that is set in
\* memory[I + r], and no other cell; afterwards VF is 1 if a toggled cell was set
\* before and 0 otherwise; memory, I, the stack and the registers other than VF
\* are unchanged and PC is the next instruction.
C14_SpriteDraw ==
  [][ (Cycle /\ FetchInside /\ IsDRW(Fetched))
        => LET vx == registers[OpX(Fetched)]
               vy == registers[OpY(Fetched)]
               n == OpN(Fetched)
               bits == { rb \in (0..(n - 1)) \X (0..7) :
                           /\ I + rb[1] < 4096
                           /\ (memory[I + rb[1]] \div (2 ^ (7 - rb[2]))) % 2 = 1 }
               toggled == { ((vy + rb[1]) % 32) * 64 + ((vx + rb[2]) % 64) : rb \in bits }
           IN /\ \A c \in 0..2047 :
                   framebuffer'[c] = IF c \in toggled
                                     THEN framebuffer[c] + 1 - 2 * (framebuffer[c] % 2)
                                     ELSE framebuffer[c]
              /\ registers'[15] = IF \E c \in toggled : framebuffer[c] # 0 THEN 1 ELSE 0
              /\ \A r \in 0..14 : registers'[r] = registers[r]
              /\ UNCHANGED << memory, I, stack, SP >>
              /\ PC' = PC + 2
    ]_vars

\* ------------------------------------------------------------ claim C15

\* The next two cycles fetch the same DXYN, with x and y other than F.
DrawsTwice ==
  /\ proc = "running"
  /\ loadResult = "true"
  /\ PC + 3 < MEMORY_SIZE
  /\ IsDRW(Fetched)
  /\ memory[PC + 2] * 256 + memory[PC + 3] = Fetched
  /\ OpX(Fetched) # 15
  /\ OpY(Fetched) # 15

\* Both draws are executed, and the second reads the sprite bytes the first read.
BothDrawn(s1, s2, ub) ==
  /\ s1.proc = "running"
  /\ s2.proc = "running"
  /\ \A r \in 0..(OpN(Fetched) - 1) : Load(s1, I + r, ub) = Load(Self, I + r, ub)

\* The sprite has a bit that is set.
SpriteHasBit(ub) == \E r \in 0..(OpN(Fetched) - 1) : Load(Self, I + r, ub) # 0

\* C15 as stated: the same DXYN executed twice in a row (x, y not F, the sprite
\* bytes unchanged) restores the framebuffer, and the second draw leaves VF = 1
\* whenever the sprite has a set bit.
C15_DrawTwiceAlwaysCollides ==
  DrawsTwice =>
    \A ub \in UBChoicesOf(Self) :
      LET s1 == cycle(Self, ub)
          s2 == cycle(s1, ub)
      IN BothDrawn(s1, s2, ub)
           => /\ s2.framebuffer = framebuffer
              /\ SpriteHasBit(ub) => s2.registers[15] = 1

\* C15 amended: the same DXYN executed twice in a row (x, y not F, the sprite
\* bytes unchanged) restores the framebuffer, and the second draw leaves VF = 1
\* exactly when the first draw turned on a cell that was clear.
C15_DrawTwiceRestores ==
  DrawsTwice =>
    \A ub \in UBChoicesOf(Self) :
      LET s1 == cycle(Self, ub)
          s2 == cycle(s1, ub)
      IN BothDrawn(s1, s2, ub)
           => /\ s2.framebuffer = framebuffer
              /\ s2.registers[15] = 1
                   <=> \E c \in 0..2047 : framebuffer[c] = 0 /\ s1.framebuffer[c] # 0

\* The glyph at 0x50 was drawn three times at (0, 0): the third draw, the second
\* of two in a row, lit the glyph again and left VF = 0.
C15_Witness ==
  /\ opcode = DRW(0, 1, 4)
  /\ PC = At(6)
  /\ I = FONTSET_START_ADDRESS
  /\ registers[0] = 0
  /\ registers[1] = 0
  /\ framebuffer[0] = 1
  /\ registers[15] = 0

\* ------------------------------------------------------------ claim C16

\* C16: DXYN places each sprite pixel on its own at column (Vx + b) mod 64 and
\* row (Vy + r) mod 32, for every Vx, Vy and N: no set bit of a sprite row is
\* clipped, and every framebuffer cell the draw touches is at such a position,
\* at an index in 0..2047.
C16_ScreenWraparound ==
  [][ (Cycle /\ FetchInside /\ IsDRW(Fetched))
        => LET vx == registers[OpX(Fetched)]
               vy == registers[OpY(Fetched)]
               n == OpN(Fetched)
               Index(r, b) == ((vy + r) % 32) * 64 + ((vx + b) % 64)
           IN /\ \A r \in 0..(n - 1), b \in 0..7 :
                   (I + r < 4096 /\ (memory[I + r] \div (2 ^ (7 - b))) % 2 = 1)
                     => /\ Index(r, b) \in 0..2047
                        /\ framebuffer'[Index(r, b)] # framebuffer[Index(r, b)]
              /\ \A c \in 0..2047 :
                   framebuffer'[c] # framebuffer[c]
                     => \E r \in 0..(n - 1), b \in 0..7 : c = Index(r, b)
              /\ DOMAIN framebuffer' = 0..2047
    ]_vars

\* Four rows of the program's own bytes were drawn at (60, 30): bit 7 of the
\* first row landed in column 3 of row 30, and the third row landed in row 0.
C16_Witness ==
  /\ opcode = DRW(0, 1, 4)
  /\ PC = At(4)
  /\ I = PROGRAM_START_ADDRESS
  /\ registers[0] = 60
  /\ registers[1] = 30
  /\ framebuffer[30 * 64 + 3] = 1
  /\ framebuffer[61] = 1

\* ------------------------------------------------------------ replayed programs

RND(x, kk) == Word(12, x, kk \div 16, kk % 16)

\* three random numbers, then spin
RndRom == Prog(<< RND(0, 255), RND(1, 15), RND(0, 255), JP(At(3)) >>)

\* the opcode repeated n times
Repeat(op, n) == [i \in 1..n |-> op]

\* I is moved past the end of the Chip8 object by ADD I, V0 (0xFFF + 27 * 255 + 244
\* = 11224), then V0 is loaded from memory[I]; then spin
StrayLoadRom ==
  Prog(<< LDI(MEMORY_SIZE - 1), LDB(0, 255) >> \o Repeat(FX(0, 30), 27)
       \o << LDB(0, 244), FX(0, 30), FX(0, 101), JP(At(32)) >>)

ReplayRoms == { RndRom, KeyRom, TimerRom, StrayLoadRom }

ReplayNext ==
  \/ \E rom \in ReplayRoms : LoadRom(File("replay.ch8", TRUE, rom))
  \/ Cycle
  \/ Tick
  \/ \E key \in PadKeys, down \in BOOLEAN : KeyEvent(key, down)

SpecReplay == Init /\ [][ReplayNext]_vars

\* the fields of claim C17
Observed(s) ==
  << s.registers, s.memory, s.stack, s.PC, s.SP, s.I, s.delayTimer, s.soundTimer,
     s.framebuffer, s.pressedKey >>

\* ------------------------------------------------------------ claim C17

\* C17: two interpreters constructed alike, loaded with the same ROM and given
\* the same calls are in the same state after every step.  tick() and the
\* keyboard writes are functions of the state; so the claim is that in every
\* reachable state cycle() has one outcome on one build, which makes the k-th
\* RND yield the same Vx in both runs.
C17_Determinism ==
  (proc = "running" /\ loadResult = "true")
    => \A ub1 \in UBChoicesOf(Self), ub2 \in UBChoicesOf(Self) :
         (ub1.how = ub2.how /\ RngKnown(Self, ub1) /\ RngKnown(Self, ub2))
           => Observed(cycle(Self, ub1)) = Observed(cycle(Self, ub2))

\* ------------------------------------------------------------ one-opcode programs

\* The opcodes the one-opcode programs start with: every low nibble of the
\* classes 5, 8 and 9, every low byte of the classes E and F, SYS addresses
\* around 00E0 and 00EE, and one opcode of each remaining class.  Jumps and
\* calls aim at the spinning tail of the program.
OpSample ==
  { Word(c, x, y, n) : c \in { 5, 8, 9 }, x \in { 0, 15 }, y \in { 0, 7 }, n \in 0..15 }
    \cup { Word(c, x, kk \div 16, kk % 16) : c \in { 14, 15 }, x \in { 0, 15 }, kk \in 0..255 }
    \cup { 0, 1, 223, 225, 237, 239, 254, 3808, 4095, CLS, RET }
    \cup { JP(At(1)), CALL(At(2)), Word(11, 0, 0, 0) + At(1), Word(3, 0, 0, 0),
           Word(4, 0, 0, 0), LDB(3, 9), Word(7, 3, 0, 9), LDI(At(0)), RND(2, 15),
           DRW(0, 0, 5) }

\* the opcode, then two jumps to themselves: the second one catches a skip
OpRom(op) == Prog(<< op, JP(At(1)), JP(At(2)) >>)

OpNext ==
  \/ \E op \in OpSample : LoadRom(File("op.ch8", TRUE, OpRom(op)))
  \/ Cycle

SpecOp == Init /\ [][OpNext]_vars

\* the opcode matches no test of execute()'s chain
Unimplemented(op) ==
  \/ OpClass(op) \in { 5, 9 } /\ OpN(op) # 0
  \/ OpClass(op) = 8 /\ OpN(op) \in { 8, 9, 10, 11, 12, 13, 15 }
  \/ OpClass(op) = 14 /\ OpKK(op) \notin { 158, 161 }
  \/ OpClass(op) = 15 /\ OpKK(op) \notin { 7, 10, 21, 24, 30, 41, 51, 85, 101 }

\* SYS addr: class 0 other than CLS and RET
IsSYS(op) == OpClass(op) = 0 /\ op \notin { CLS, RET }

\* ------------------------------------------------------------ claim C18

\* C18: a cycle that fetches an opcode matching no pattern of the table (5XYn
\* and 9XYn with n # 0, 8XYn with n in 8..D or F, EXkk other than E09E/E0A1,
\* FXkk other than 07, 0A, 15, 18, 1E, 29, 33, 55, 65) terminates the process
\* with a non-zero status; any other opcode does not exit, the stack checks of
\* RET and CALL apart; a 0NNN other than 00E0 and 00EE changes nothing but PC,
\* which is advanced by 2.
C18_UnimplementedFatal ==
  [][ (Cycle /\ FetchInside)
        => LET op == Fetched
           IN /\ Unimplemented(op) => (proc' = "exited" /\ exitCode' # 0)
              /\ (/\ ~Unimplemented(op)
                  /\ ~(IsRET(op) /\ SP = 0)
                  /\ ~(IsCALL(op) /\ SP >= STACK_SIZE))
                   => proc' # "exited"
              /\ IsSYS(op)
                   => /\ PC' = PC + 2
                      /\ UNCHANGED << registers, memory, stack, I, SP, delayTimer,
                                      soundTimer, rng, framebuffer, keyboard,
                                      updateDisplayFlag, pressedKey, proc, exitCode >>
    ]_vars

\* 8F7B, of class 8 with the unlisted low nibble B, was fetched at 0x200 and
\* ended the process with status 1.
C18_Witness ==
  /\ opcode = Word(8, 15, 7, 11)
  /\ PC = At(1)
  /\ proc = "exited"
  /\ exitCode = 1

\* ------------------------------------------------------------ main's loop

\* the frames a run makes
MaxFrames == 3

\* for (int i = 0; i < 10; i++)
CyclesPerFrame == 10

\* the steps of one pass of while (running), in the order of the code
FrameOrder_AudioLast == << "tick", "events", "cycles", "audio", "redraw", "present" >>

FrameOrder == << "tick", "audio", "events", "cycles", "redraw", "present" >>

\* the step that follows step at of a pass
After(at) ==
  LET k == CHOOSE j \in 1..Len(FrameOrder) : FrameOrder[j] = at
  IN FrameOrder[(k % Len(FrameOrder)) + 1]

\* Chip8::displayUpdated() that leaves the flag alone
displayUpdated_Keeps(s) == s

\* Chip8::displayUpdated()
displayUpdated(s) == [s EXCEPT !.updateDisplayFlag = FALSE]

\* Chip8::updateDisplay()
updateDisplay(s) == s.updateDisplayFlag

\* CLS, then back to it
ClsRom == Prog(<< CLS, JP(At(0)) >>)

\* the sound timer set to 2 by the first frame's instructions
BeepRom == Prog(<< LDB(0, 2), FX(0, 24), JP(At(2)) >>)

\* I = 0xFFF + 35 = 4130, where PC lies after memory[], then FX55 with x = 1
\* storing V0 = 0xFE and V1 = 0xFF there
WildRom ==
  Prog(<< LDI(4095), LDB(0, 35), FX(0, 30), LDB(0, 254), LDB(1, 255), FX(1, 85),
          JP(At(6)) >>)

\* I = 0xFFF + 34 = 4129, the high byte of I: FX55 with V0 = 0x2B makes
\* I = 0x2B21, 161 more make it 11202, where updateDisplayFlag lies, and FX55
\* stores V0 = 1 there
FlagRom ==
  Prog(<< LDI(4095), LDB(0, 34), FX(0, 30), LDB(0, 43), FX(0, 85), LDB(0, 161),
          FX(0, 30), LDB(0, 1), FX(0, 85), JP(At(9)) >>)

\* the files main is started with: five that load, one that does not open
DriverFiles ==
  { File("cls.ch8", TRUE, ClsRom), File("beep.ch8", TRUE, BeepRom),
    File("fault.ch8", TRUE, UnderflowRom), File("wild.ch8", TRUE, WildRom),
    File("flag.ch8", TRUE, FlagRom), File("missing.ch8", FALSE, << >>) }

\* int keyboardMapping(SDL_Scancode scancode) with the rows of 4 and R swapped
keyboardMapping_Swapped(scancode) ==
  CASE scancode = "SDL_SCANCODE_1" -> 1
    [] scancode = "SDL_SCANCODE_2" -> 2
    [] scancode = "SDL_SCANCODE_3" -> 3
    [] scancode = "SDL_SCANCODE_4" -> 13
    [] scancode = "SDL_SCANCODE_Q" -> 4
    [] scancode = "SDL_SCANCODE_W" -> 5
    [] scancode = "SDL_SCANCODE_E" -> 6
    [] scancode = "SDL_SCANCODE_R" -> 12
    [] scancode = "SDL_SCANCODE_A" -> 7
    [] scancode = "SDL_SCANCODE_S" -> 8
    [] scancode = "SDL_SCANCODE_D" -> 9
    [] scancode = "SDL_SCANCODE_F" -> 14
    [] scancode = "SDL_SCANCODE_Z" -> 10
    [] scancode = "SDL_SCANCODE_X" -> 0
    [] scancode = "SDL_SCANCODE_C" -> 11
    [] scancode = "SDL_SCANCODE_V" -> 15
    [] OTHER -> -1

\* int keyboardMapping(SDL_Scancode scancode)
keyboardMapping(scancode) ==
  CASE scancode = "SDL_SCANCODE_1" -> 1
    [] scancode = "SDL_SCANCODE_2" -> 2
    [] scancode = "SDL_SCANCODE_3" -> 3
    [] scancode = "SDL_SCANCODE_4" -> 12
    [] scancode = "SDL_SCANCODE_Q" -> 4
    [] scancode = "SDL_SCANCODE_W" -> 5
    [] scancode = "SDL_SCANCODE_E" -> 6
    [] scancode = "SDL_SCANCODE_R" -> 13
    [] scancode = "SDL_SCANCODE_A" -> 7
    [] scancode = "SDL_SCANCODE_S" -> 8
    [] scancode = "SDL_SCANCODE_D" -> 9
    [] scancode = "SDL_SCANCODE_F" -> 14
    [] scancode = "SDL_SCANCODE_Z" -> 10
    [] scancode = "SDL_SCANCODE_X" -> 0
    [] scancode = "SDL_SCANCODE_C" -> 11
    [] scancode = "SDL_SCANCODE_V" -> 15
    [] OTHER -> -1

\* the keys whose events the loop is given: two of the pad, and Escape
DriverScancodes == { "SDL_SCANCODE_3", "SDL_SCANCODE_Z", "SDL_SCANCODE_ESCAPE" }

\* SDL_Quit() after a failed SDL_CreateWindow
WindowFailureReleases == << "SDL_Init" >>

\* the renderer failure releasing in the order of acquisition
RendererFailureReleases_Forward == << "SDL_Init", "window" >>

\* SDL_DestroyWindow(window); SDL_Quit(); after a failed SDL_CreateRenderer
RendererFailureReleases == << "window", "SDL_Init" >>

\* SDL_DestroyRenderer(renderer); SDL_DestroyWindow(window); SDL_Quit();
ShutdownReleases == << "renderer", "window", "SDL_Init" >>

\* if (argc < 2) return 1;
MainUsage ==
  /\ mainAt = "start"
  /\ loads = 0
  /\ mainReturn' = 1
  /\ mainAt' = "done"
  /\ UNCHANGED << chipVars, loadResult, filename, loads, audioPlaying, running,
                  countTick, cycleIdx, audioVars, acquired, released, audioDevice,
                  frameVars >>

\* main returning 1 when loadRom returns false
LoadStatus_Failure(loaded) == IF loaded THEN -1 ELSE 1

\* if (!chip.loadRom(rom)) return 0; -1 while main goes on
LoadStatus(loaded) == IF loaded THEN -1 ELSE 0

\* if (!chip.loadRom(rom)) return 0;
MainLoad(file) ==
  /\ mainAt = "start"
  /\ loads = 0
  /\ LoadCall(file)
  /\ mainAt' = IF loadRomReturns(file) THEN "SDL_Init" ELSE "done"
  /\ mainReturn' = LoadStatus(loadRomReturns(file))
  /\ UNCHANGED << audioPlaying, running, countTick, cycleIdx, audioVars, acquired,
                  released, audioDevice, frameVars >>

\* a step of main that leaves the interpreter alone
ChipUntouched ==
  /\ proc = "running"
  /\ UNCHANGED << chipVars, loadResult, filename, loads >>

\* if (SDL_Init(SDL_INIT_VIDEO | SDL_INIT_AUDIO) != 0) return 1;
MainInit(ok) ==
  /\ mainAt = "SDL_Init"
  /\ ChipUntouched
  /\ acquired' = IF ok THEN Append(acquired, "SDL_Init") ELSE acquired
  /\ mainAt' = IF ok THEN "window" ELSE "done"
  /\ mainReturn' = IF ok THEN mainReturn ELSE 1
  /\ UNCHANGED << audioPlaying, running, countTick, cycleIdx, audioVars, released,
                  audioDevice, frameVars >>

\* SDL_CreateWindow; if (!window) { SDL_Quit(); return 1; }
MainWindow(ok) ==
  /\ mainAt = "window"
  /\ ChipUntouched
  /\ acquired' = IF ok THEN Append(acquired, "window") ELSE << >>
  /\ released' = IF ok THEN released ELSE released \o WindowFailureReleases
  /\ mainAt' = IF ok THEN "renderer" ELSE "done"
  /\ mainReturn' = IF ok THEN mainReturn ELSE 1
  /\ UNCHANGED << audioPlaying, running, countTick, cycleIdx, audioVars, audioDevice,
                  frameVars >>

\* SDL_CreateRenderer; if (!renderer) { SDL_DestroyWindow(window); SDL_Quit();
\* return 1; }
MainRenderer(ok) ==
  /\ mainAt = "renderer"
  /\ ChipUntouched
  /\ acquired' = IF ok THEN Append(acquired, "renderer") ELSE << >>
  /\ released' = IF ok THEN released ELSE released \o RendererFailureReleases
  /\ mainAt' = IF ok THEN "audioDevice" ELSE "done"
  /\ mainReturn' = IF ok THEN mainReturn ELSE 1
  /\ UNCHANGED << audioPlaying, running, countTick, cycleIdx, audioVars, audioDevice,
                  frameVars >>

\* audioDevice = SDL_OpenAudioDevice(...); a failure is logged only; then
\* running = true and the counters are set to 0
MainOpenAudio(ok) ==
  /\ mainAt = "audioDevice"
  /\ ChipUntouched
  /\ audioDevice' = ok
  /\ acquired' = IF ok THEN Append(acquired, "audioDevice") ELSE acquired
  /\ mainAt' = FrameOrder[1]
  /\ UNCHANGED << audioPlaying, running, countTick, cycleIdx, audioVars, mainReturn,
                  released, frameVars >>

\* chip.tick(); countTick++
MainTick ==
  /\ mainAt = "tick"
  /\ running
  /\ countTick < MaxFrames
  /\ TickCall
  /\ countTick' = countTick + 1
  /\ mainAt' = After("tick")
  /\ frameDrew' = FALSE
  /\ frameRedrawn' = FALSE
  /\ UNCHANGED << audioPlaying, running, cycleIdx, audioVars, sdlVars,
                  countInstruction, screen >>

\* the tone enabled whatever the sound timer is
AudioGate_Always(s) == TRUE

\* (chip.soundTimer > 0)
AudioGate(s) == s.soundTimer > 0

\* if (audioDevice) SDL_LockAudioDevice(audioDevice);
\* audioPlaying = (chip.soundTimer > 0);
\* if (audioDevice) SDL_UnlockAudioDevice(audioDevice);
MainAudio ==
  /\ mainAt = "audio"
  /\ ChipUntouched
  /\ audioLock = "free"
  /\ audioPlaying' = AudioGate(Self)
  /\ mainAt' = After("audio")
  /\ UNCHANGED << running, countTick, cycleIdx, audioVars, sdlVars, frameVars >>

\* a key-down or key-up event polled, an Escape key-down apart
MainKey(scancode, down) ==
  /\ mainAt = "events"
  /\ ~(down /\ scancode = "SDL_SCANCODE_ESCAPE")
  /\ LET key == keyboardMapping(scancode)
     IN IF key # -1 THEN KeyWrite(key, down) ELSE ChipUntouched
  /\ UNCHANGED driverVars

\* SDL_QUIT polled: the drain goes on
MainQuit ==
  /\ mainAt = "events"
  /\ ChipUntouched
  /\ running
  /\ running' = FALSE
  /\ UNCHANGED << mainAt, audioPlaying, countTick, cycleIdx, audioVars, sdlVars,
                  frameVars >>

\* if (!running) break;
LeavesLoop(run) == ~run

\* no event left, or Escape pressed, which leaves the drain; then
\* if (!running) break;
MainDrained(escape) ==
  /\ mainAt = "events"
  /\ ChipUntouched
  /\ running' = (running /\ ~escape)
  /\ mainAt' = IF LeavesLoop(running') THEN "shutdown" ELSE After("events")
  /\ cycleIdx' = 0
  /\ UNCHANGED << audioPlaying, countTick, audioVars, sdlVars, frameVars >>

\* the for loop has made its last pass
CyclesDone_Nine(k) == k = CyclesPerFrame - 1

\* the for loop has made its last pass: i < 10 is false
CyclesDone(k) == k = CyclesPerFrame

\* chip.cycle(); countInstruction++; i++
MainCycle ==
  /\ mainAt = "cycles"
  /\ ~CyclesDone(cycleIdx)
  /\ CycleCall
  /\ cycleIdx' = cycleIdx + 1
  /\ countInstruction' = countInstruction + 1
  /\ mainAt' = IF CyclesDone(cycleIdx') THEN After("cycles") ELSE "cycles"
  /\ frameDrew' = (frameDrew \/ opcode' = CLS \/ OpClass(opcode') = 13)
  /\ UNCHANGED << audioPlaying, running, countTick, audioVars, sdlVars, screen,
                  frameRedrawn >>

\* the colours of the 64 * 32 rectangles filled from framebuffer[]
Drawn(s) == [p \in DOMAIN s.framebuffer |-> IF s.framebuffer[p] # 0 THEN 255 ELSE 10]

\* if (chip.updateDisplay()) { ...; chip.displayUpdated(); }
MainRedraw ==
  /\ mainAt = "redraw"
  /\ proc = "running"
  /\ Becomes(IF updateDisplay(Self) THEN displayUpdated(Self) ELSE Self)
  /\ screen' = IF updateDisplay(Self) THEN Drawn(Self) ELSE screen
  /\ frameRedrawn' = updateDisplay(Self)
  /\ mainAt' = After("redraw")
  /\ UNCHANGED << loadResult, filename, loads, audioPlaying, running, countTick,
                  cycleIdx, audioVars, sdlVars, countInstruction, frameDrew >>

\* SDL_RenderPresent(renderer) and the sleep to the next tick
MainPresent ==
  /\ mainAt = "present"
  /\ ChipUntouched
  /\ mainAt' = After("present")
  /\ UNCHANGED << audioPlaying, running, countTick, cycleIdx, audioVars, sdlVars,
                  frameVars >>

\* after the loop: the audio device muted under its lock and closed if there is
\* one, the renderer, the window and SDL released, return 0
MainShutdown ==
  /\ mainAt = "shutdown"
  /\ ChipUntouched
  /\ audioLock = "free"
  /\ audioPlaying' = IF audioDevice THEN FALSE ELSE audioPlaying
  /\ released' = released \o (IF audioDevice THEN << "audioDevice" >> ELSE << >>)
                          \o ShutdownReleases
  /\ acquired' = << >>
  /\ mainReturn' = 0
  /\ mainAt' = "done"
  /\ UNCHANGED << running, countTick, cycleIdx, audioVars, audioDevice, frameVars >>

DriverNext ==
  \/ MainUsage
  \/ \E file \in DriverFiles : MainLoad(file)
  \/ \E ok \in BOOLEAN : MainInit(ok)
  \/ \E ok \in BOOLEAN : MainWindow(ok)
  \/ \E ok \in BOOLEAN : MainRenderer(ok)
  \/ \E ok \in BOOLEAN : MainOpenAudio(ok)
  \/ MainTick
  \/ MainAudio
  \/ \E scancode \in DriverScancodes, down \in BOOLEAN : MainKey(scancode, down)
  \/ MainQuit
  \/ \E escape \in BOOLEAN : MainDrained(escape)
  \/ MainCycle
  \/ MainRedraw
  \/ MainPresent
  \/ MainShutdown

SpecDriver == Init /\ [][DriverNext]_vars

\* the program loaded is CLS at 0x200 followed by JP 0x200
ClsLoaded ==
  /\ filename = "cls.ch8"
  /\ loadResult = "true"
  /\ memory[At(0)] * 256 + memory[At(0) + 1] = CLS
  /\ memory[At(1)] * 256 + memory[At(1) + 1] = JP(At(0))

\* the step raises updateDisplayFlag
FlagRaised == ~updateDisplayFlag /\ updateDisplayFlag'

\* the step is the first cycle() of a frame
FirstCycleOfFrame == mainAt = "cycles" /\ cycleIdx = 0 /\ cycleIdx' = 1

\* ------------------------------------------------------------ claim C19

\* C19 as stated: with CLS, JP 0x200 loaded and run by main's loop,
\* updateDisplayFlag is raised exactly once, on the first cycle of the run; the
\* framebuffer is all zeros in every state; the process never terminates.
C19_OnePulse ==
  [][ ClsLoaded
        => /\ FlagRaised <=> (FirstCycleOfFrame /\ countTick = 1)
           /\ \A p \in DOMAIN framebuffer : framebuffer'[p] = 0
           /\ proc' = "running"
    ]_vars

\* C19, amended: every CLS sets updateDisplayFlag and the redraw that ends the
\* frame clears it, so the flag is raised once in every frame, on the frame's
\* first cycle, and is set from that cycle to the frame's redraw; the
\* framebuffer is all zeros in every state; the interpreter never terminates
\* the process.
C19_OnePulsePerFrame ==
  [][ ClsLoaded
        => /\ FlagRaised <=> FirstCycleOfFrame
           /\ (mainAt = "cycles" /\ cycleIdx > 0) => updateDisplayFlag
           /\ mainAt = "redraw" => updateDisplayFlag /\ ~updateDisplayFlag'
           /\ \A p \in DOMAIN framebuffer : framebuffer'[p] = 0
           /\ proc' = "running"
    ]_vars

\* The first cycle of the second frame has raised the flag again.
C19_Witness ==
  /\ ClsLoaded
  /\ countTick = 2
  /\ mainAt = "cycles"
  /\ cycleIdx = 1
  /\ opcode = CLS
  /\ updateDisplayFlag
  /\ proc = "running"

\* the steps of the loop named by claim C20, first to last
ClaimedOrder == << "tick", "audio", "events", "cycles", "redraw", "present" >>

\* the place of a step in the claimed order
Rank(at) == CHOOSE j \in 1..Len(ClaimedOrder) : ClaimedOrder[j] = at

InFrame(at) == \E j \in 1..Len(ClaimedOrder) : ClaimedOrder[j] = at

\* ------------------------------------------------------------ claim C20

\* C20: in every frame of main's loop tick() comes first, then the write
\* audioPlaying := (soundTimer > 0), then the drain of events, then the cycles,
\* then the redraw and the present: a step moves main to the same or the next
\* step of the order, a new frame begins only after the present, each effect
\* happens at its own step, and from the audio write to the frame's first cycle
\* audioPlaying equals (soundTimer > 0), the timer being that left by the
\* frame's tick.
C20_FrameOrder ==
  [][ (InFrame(mainAt) /\ InFrame(mainAt'))
        => /\ \/ Rank(mainAt') = Rank(mainAt)
              \/ Rank(mainAt') = Rank(mainAt) + 1
              \/ mainAt = "present" /\ mainAt' = "tick"
           /\ countTick' # countTick
                => (mainAt = "tick" /\ mainAt' = "audio" /\ Self' = tick(Self))
           /\ mainAt = "tick" => countTick' = countTick + 1
           /\ mainAt = "audio"
                => (mainAt' = "events" /\ audioPlaying' = (soundTimer > 0))
           /\ audioPlaying' # audioPlaying => mainAt = "audio"
           /\ keyboard' # keyboard => mainAt = "events"
           /\ (opcode' # opcode \/ PC' # PC \/ cycleIdx' = cycleIdx + 1)
                => mainAt = "cycles"
           /\ (updateDisplayFlag /\ ~updateDisplayFlag') => mainAt = "redraw"
           /\ (mainAt' = "events" \/ (mainAt' = "cycles" /\ cycleIdx' = 0))
                => audioPlaying' = (soundTimer' > 0)
    ]_vars

\* The second frame's tick left the sound timer at 1, the audio flag was
\* written from it, and the frame's cycles are about to begin.
C20_Witness ==
  /\ filename = "beep.ch8"
  /\ countTick = 2
  /\ mainAt = "cycles"
  /\ cycleIdx = 0
  /\ soundTimer = 1
  /\ audioPlaying

\* ------------------------------------------------------------ claim C21

\* C21: every pass of the loop that does not quit makes one tick() and 10
\* cycle() calls: where a pass begins countInstruction = 10 * countTick, between
\* the pass's tick and its first cycle countInstruction = 10 * (countTick - 1),
\* after its last cycle countInstruction = 10 * countTick again, and at the
\* shutdown the user asked for countInstruction = 10 * (countTick - 1), the
\* quitting pass having ticked and run no instruction.
C21_FixedThrottle ==
  /\ mainAt = "tick" => countInstruction = 10 * countTick
  /\ mainAt \in { "audio", "events" } => countInstruction = 10 * (countTick - 1)
  /\ mainAt = "cycles" => countInstruction = 10 * (countTick - 1) + cycleIdx
  /\ mainAt \in { "redraw", "present" } => countInstruction = 10 * countTick
  /\ (mainAt = "shutdown" \/ (mainAt = "done" /\ ~running))
       => countInstruction = 10 * (countTick - 1)

\* The user quit in the third pass: three ticks and twenty instructions.
C21_Witness ==
  /\ mainAt = "done"
  /\ mainReturn = 0
  /\ ~running
  /\ countTick = 3
  /\ countInstruction = 20

\* the step takes SDL_QUIT from the queue
TakesQuit == mainAt = "events" /\ running /\ ~running' /\ mainAt' = "events"

\* the step takes an Escape key-down from the queue
TakesEscape == MainDrained(TRUE)

\* ------------------------------------------------------------ claim C22

\* C22 as stated: once a quit event or an Escape key-down has been taken from
\* the queue, no later event of that drain is applied to keyboard[], no cycle()
\* is executed in that pass or afterwards, and the loop goes to the shutdown;
\* nothing but these two events stops the loop, an Escape key-up in particular.
C22_QuitEndsDrain ==
  [][ /\ (mainAt = "events" /\ ~running) => keyboard' = keyboard
      /\ ~running => (countInstruction' = countInstruction /\ opcode' = opcode /\ PC' = PC)
      /\ (mainAt = "events" /\ ~running) => mainAt' \in { "events", "shutdown" }
      /\ mainAt = "shutdown" => mainAt' = "done"
      /\ (running /\ ~running') => (TakesQuit \/ TakesEscape)
    ]_vars

\* main is inside while (running)
InLoop == \E j \in 1..Len(FrameOrder) : FrameOrder[j] = mainAt

\* main has left the loop on the user's request and made its shutdown
ShutDown == mainAt = "done" /\ ~running

\* ------------------------------------------------------------ claim C23

\* C23 as stated: in every state of the running loop audioPlaying = true implies
\* soundTimer > 0, and once the shutdown is made audioPlaying is false.
C23_AudioGate ==
  /\ InLoop => (audioPlaying => soundTimer > 0)
  /\ ShutDown => ~audioPlaying

\* C23, amended: audioPlaying is written once in every pass, right after the
\* tick, as (soundTimer > 0), and by nothing else in the loop; it equals
\* (soundTimer > 0) from that write to the pass's first cycle, and it may stay
\* true while the sound timer is 0 until the next pass's write (after a tick or
\* an FX18 that brought the timer to 0); the shutdown sets it to false when the
\* audio device was opened and leaves it as it is when there is no device.
C23_AudioGatePerFrame ==
  [][ /\ mainAt = "audio" => audioPlaying' = (soundTimer > 0)
      /\ (InLoop /\ mainAt # "audio") => audioPlaying' = audioPlaying
      /\ (mainAt' = "events" \/ (mainAt' = "cycles" /\ cycleIdx' = 0))
           => audioPlaying' = (soundTimer' > 0)
      /\ mainAt = "shutdown"
           => audioPlaying' = (IF audioDevice THEN FALSE ELSE audioPlaying)
    ]_vars

\* The third pass's tick has brought the sound timer to 0 and the flag written
\* in the second pass is still true.
C23_Witness ==
  /\ filename = "beep.ch8"
  /\ countTick = 3
  /\ mainAt = "audio"
  /\ soundTimer = 0
  /\ audioPlaying

\* ------------------------------------------------------------ audioCallback

SAMPLE_RATE == 44100

BEEP_FREQ == 440

AMPLITUDE == 8000

\* std::sin(ph) > 0.0, for ph in [0, 2 pi) counted in 1/SAMPLE_RATE of 2 pi: the
\* step 2 pi * BEEP_FREQ / SAMPLE_RATE is BEEP_FREQ units
SinPositive(ph) == ph > 0 /\ 2 * ph < SAMPLE_RATE

\* the two bytes of an int16_t, low byte first
Int16Bytes(v) == LET u == (v + 65536) % 65536 IN << u % 256, u \div 256 >>

\* buffer[i] of the stream, i counted from 0
Sample(strm, i) ==
  LET u == strm[2 * i + 1] + 256 * strm[2 * i + 2]
  IN IF u >= 32768 THEN u - 65536 ELSE u

\* the callback returning without the memset
Silence_None(strm, len) == strm

\* std::memset(stream, 0, len)
Silence(strm, len) == [j \in DOMAIN strm |-> IF j <= len THEN 0 ELSE strm[j]]

\* for (int i = 0; i < samples; i++) { buffer[i] = ...; ph += step; ... }
RECURSIVE FillSamples(_, _, _, _)
FillSamples(strm, i, samples, ph) ==
  IF i >= samples THEN [stream |-> strm, phase |-> ph]
  ELSE LET v == IF SinPositive(ph) THEN AMPLITUDE ELSE -AMPLITUDE
           b == Int16Bytes(v)
           ph1 == ph + BEEP_FREQ
           ph2 == IF ph1 >= SAMPLE_RATE THEN ph1 - SAMPLE_RATE ELSE ph1
       IN FillSamples([strm EXCEPT ![2 * i + 1] = b[1], ![2 * i + 2] = b[2]],
                      i + 1, samples, ph2)

\* void audioCallback(void* userdata, Uint8* stream, int len)
audioCallback(playing, strm, len, ph) ==
  IF ~playing THEN [stream |-> Silence(strm, len), phase |-> ph]
  ELSE FillSamples(strm, 0, len \div 2, ph)

\* ------------------------------------------------------------ the audio thread

\* the callbacks a run makes
MaxCallbacks == 2

\* the lengths in bytes of the buffers the device hands to the callback
CallbackLens == { 0, 3, 120 }

\* the device is open and unpaused: from SDL_OpenAudioDevice and
\* SDL_PauseAudioDevice(audioDevice, 0) to SDL_CloseAudioDevice
DeviceOpen == audioDevice /\ mainAt # "done" /\ proc = "running"

\* SDL_LockAudioDevice(audioDevice) left out
LockAudioDevice_Nop(dev, lock) == lock

\* if (audioDevice) SDL_LockAudioDevice(audioDevice);
LockAudioDevice(dev, lock) == IF dev THEN "main" ELSE lock

\* if (audioDevice) SDL_UnlockAudioDevice(audioDevice);
UnlockAudioDevice(dev, lock) == IF dev THEN "free" ELSE lock

\* the device takes its lock and calls the callback with a buffer of len bytes
CallbackEnter(len) ==
  /\ DeviceOpen
  /\ callbackAt = "idle"
  /\ callbacks < MaxCallbacks
  /\ audioLock = "free"
  /\ audioLock' = "callback"
  /\ callbackAt' = "entered"
  /\ stream' = [j \in 1..len |-> 170]
  /\ UNCHANGED << chipVars, loadResult, filename, loads, mainAt, audioPlaying, running,
                  countTick, cycleIdx, phase, callbacks, sdlVars, frameVars >>

\* the body of audioCallback
CallbackRun ==
  /\ callbackAt = "entered"
  /\ LET r == audioCallback(audioPlaying, stream, Len(stream), phase)
     IN /\ stream' = r.stream
        /\ phase' = r.phase
  /\ callbackAt' = "filled"
  /\ UNCHANGED << chipVars, loadResult, filename, loads, mainAt, audioPlaying, running,
                  countTick, cycleIdx, audioLock, callbacks, sdlVars, frameVars >>

\* the callback has returned and the device releases its lock
CallbackLeave ==
  /\ callbackAt = "filled"
  /\ audioLock' = "free"
  /\ callbackAt' = "idle"
  /\ callbacks' = callbacks + 1
  /\ UNCHANGED << chipVars, loadResult, filename, loads, mainAt, audioPlaying, running,
                  countTick, cycleIdx, stream, phase, sdlVars, frameVars >>

\* if (audioDevice) SDL_LockAudioDevice(audioDevice); in the loop
AudioLock ==
  /\ mainAt = "audio"
  /\ ChipUntouched
  /\ audioDevice => audioLock = "free"
  /\ audioLock' = LockAudioDevice(audioDevice, audioLock)
  /\ mainAt' = "audio.write"
  /\ UNCHANGED << audioPlaying, running, countTick, cycleIdx, stream, phase,
                  callbackAt, callbacks, sdlVars, frameVars >>

\* audioPlaying = (chip.soundTimer > 0);
AudioWrite ==
  /\ mainAt = "audio.write"
  /\ ChipUntouched
  /\ audioPlaying' = AudioGate(Self)
  /\ mainAt' = "audio.unlock"
  /\ UNCHANGED << running, countTick, cycleIdx, audioVars, sdlVars, frameVars >>

\* if (audioDevice) SDL_UnlockAudioDevice(audioDevice); in the loop
AudioUnlock ==
  /\ mainAt = "audio.unlock"
  /\ ChipUntouched
  /\ audioLock' = UnlockAudioDevice(audioDevice, audioLock)
  /\ mainAt' = After("audio")
  /\ UNCHANGED << audioPlaying, running, countTick, cycleIdx, stream, phase,
                  callbackAt, callbacks, sdlVars, frameVars >>

\* after the loop: if (audioDevice) { SDL_LockAudioDevice(audioDevice);
ShutdownLock ==
  /\ mainAt = "shutdown"
  /\ ChipUntouched
  /\ audioDevice => audioLock = "free"
  /\ audioLock' = LockAudioDevice(audioDevice, audioLock)
  /\ mainAt' = IF audioDevice THEN "shutdown.write" ELSE "shutdown.release"
  /\ UNCHANGED << audioPlaying, running, countTick, cycleIdx, stream, phase,
                  callbackAt, callbacks, sdlVars, frameVars >>

\* audioPlaying = false;
ShutdownMute ==
  /\ mainAt = "shutdown.write"
  /\ ChipUntouched
  /\ audioPlaying' = FALSE
  /\ mainAt' = "shutdown.unlock"
  /\ UNCHANGED << running, countTick, cycleIdx, audioVars, sdlVars, frameVars >>

\* SDL_UnlockAudioDevice(audioDevice); SDL_CloseAudioDevice(audioDevice); }
ShutdownUnlock ==
  /\ mainAt = "shutdown.unlock"
  /\ ChipUntouched
  /\ audioLock' = UnlockAudioDevice(audioDevice, audioLock)
  /\ released' = Append(released, "audioDevice")
  /\ mainAt' = "shutdown.release"
  /\ UNCHANGED << audioPlaying, running, countTick, cycleIdx, stream, phase,
                  callbackAt, callbacks, mainReturn, acquired, audioDevice, frameVars >>

\* SDL_DestroyRenderer(renderer); SDL_DestroyWindow(window); SDL_Quit();
\* return 0;
ShutdownRelease ==
  /\ mainAt = "shutdown.release"
  /\ ChipUntouched
  /\ released' = released \o ShutdownReleases
  /\ acquired' = << >>
  /\ mainReturn' = 0
  /\ mainAt' = "done"
  /\ UNCHANGED << audioPlaying, running, countTick, cycleIdx, audioVars, audioDevice,
                  frameVars >>

AudioFiles == { File("beep.ch8", TRUE, BeepRom) }

AudioNext ==
  \/ \E file \in AudioFiles : MainLoad(file)
  \/ \E ok \in BOOLEAN : MainInit(ok)
  \/ \E ok \in BOOLEAN : MainWindow(ok)
  \/ \E ok \in BOOLEAN : MainRenderer(ok)
  \/ \E ok \in BOOLEAN : MainOpenAudio(ok)
  \/ MainTick
  \/ AudioLock
  \/ AudioWrite
  \/ AudioUnlock
  \/ MainQuit
  \/ \E escape \in BOOLEAN : MainDrained(escape)
  \/ MainCycle
  \/ MainRedraw
  \/ MainPresent
  \/ ShutdownLock
  \/ ShutdownMute
  \/ ShutdownUnlock
  \/ ShutdownRelease
  \/ \E len \in CallbackLens : CallbackEnter(len)
  \/ CallbackRun
  \/ CallbackLeave

SpecAudio == Init /\ [][AudioNext]_vars

\* ------------------------------------------------------------ C24

\* a step that runs the body of audioCallback
CallbackStep == callbackAt = "entered" /\ callbackAt' = "filled"

\* the phase after n samples from ph
Advanced(ph, n) == (ph + n * BEEP_FREQ) % SAMPLE_RATE

\* C24: a call of audioCallback with a buffer of len bytes handles len / 2
\* samples (integer division) and never writes audioPlaying. When audioPlaying
\* is false it fills all len bytes with zero and leaves phase unchanged. When
\* audioPlaying is true it writes the len / 2 samples in order, each one
\* +AMPLITUDE when the sine of the phase current for that sample is above zero
\* and -AMPLITUDE otherwise, the phase advancing by 2 pi * BEEP_FREQ /
\* SAMPLE_RATE per sample and wrapping at 2 pi, and the advanced phase is
\* stored back. The length of the buffer is unchanged.
C24_Callback ==
  [][CallbackStep =>
       LET len == Len(stream)
           samples == len \div 2
       IN /\ audioPlaying' = audioPlaying
          /\ Len(stream') = len
          /\ ~audioPlaying =>
               /\ \A j \in 1..len : stream'[j] = 0
               /\ phase' = phase
          /\ audioPlaying =>
               /\ \A i \in 0..(samples - 1) :
                    Sample(stream', i) =
                      IF SinPositive(Advanced(phase, i)) THEN AMPLITUDE ELSE -AMPLITUDE
               /\ \A j \in (2 * samples + 1)..len : stream'[j] = stream[j]
               /\ phase' = Advanced(phase, samples)]_vars

\* a buffer of 60 samples was filled from phase 0 while the flag was set: the
\* first sample is low, the next fifty high, the rest low
C24_Witness ==
  /\ callbackAt = "filled"
  /\ audioPlaying
  /\ Len(stream) = 120
  /\ Sample(stream, 0) = -AMPLITUDE
  /\ Sample(stream, 1) = AMPLITUDE
  /\ Sample(stream, 50) = AMPLITUDE
  /\ Sample(stream, 51) = -AMPLITUDE
  /\ phase = 60 * BEEP_FREQ

\* ------------------------------------------------------------ C25

\* main is between taking and releasing the lock around a write of audioPlaying
MainWrites == mainAt \in { "audio.write", "audio.unlock", "shutdown.write", "shutdown.unlock" }

\* the callback is between its entry and its return
CallbackRuns == callbackAt # "idle"

\* C25: with the audio device open, main writes audioPlaying only while it
\* holds the device lock and the callback runs only while the device holds it,
\* so a write of audioPlaying by main never overlaps a run of the callback;
\* phase is changed by the callback alone.
C25_NoRace ==
  [][/\ (audioDevice /\ MainWrites') => (audioLock' = "main" /\ ~CallbackRuns')
     /\ CallbackRuns' => (audioLock' = "callback" /\ ~MainWrites')
     /\ (audioDevice /\ audioPlaying' # audioPlaying) => (audioLock = "main" /\ ~CallbackRuns)
     /\ phase' # phase => (CallbackStep /\ audioLock = "callback")]_vars

\* main holds the lock after raising the flag, a callback having already run:
\* the next callback has to wait for the unlock
C25_Witness ==
  /\ audioDevice
  /\ mainAt = "audio.unlock"
  /\ audioLock = "main"
  /\ audioPlaying
  /\ callbacks >= 1
  /\ callbackAt = "idle"

\* ------------------------------------------------------------ C27

RECURSIVE Reverse(_)
Reverse(seq) == IF seq = << >> THEN << >> ELSE Append(Reverse(Tail(seq)), Head(seq))

\* a step of the start-up that fails
StartupFails == mainAt \in { "SDL_Init", "window", "renderer" } /\ mainAt' = "done"

\* C27: a failure of the window or of the renderer releases what was acquired
\* before it, in reverse order of acquisition, and returns 1 (the window
\* failure calls SDL_Quit, the renderer failure destroys the window and then
\* calls SDL_Quit). A failure to open the audio device is not fatal: the loop
\* runs, and the device is never locked, unlocked or closed.
C27_Release ==
  [][/\ StartupFails =>
          /\ released' = Reverse(acquired)
          /\ acquired' = << >>
          /\ mainReturn' = 1
     /\ (mainAt = "window" /\ mainAt' = "done") => released' = << "SDL_Init" >>
     /\ (mainAt = "renderer" /\ mainAt' = "done") => released' = << "window", "SDL_Init" >>
     /\ mainAt = "audioDevice" => (mainAt' = FrameOrder[1] /\ mainReturn' = -1)
     /\ ~audioDevice' =>
          /\ audioLock' = "free"
          /\ \A i \in DOMAIN released' : released'[i] # "audioDevice"
          /\ mainAt' \notin { "shutdown.write", "shutdown.unlock" }]_vars

\* the loop is in its second frame without an audio device
C27_Witness ==
  /\ ~audioDevice
  /\ Len(acquired) = 3
  /\ countTick = 2
  /\ mainAt = "cycles"
  /\ cycleIdx = 5

\* ------------------------------------------------------------ C26

\* C26: main returns 1 when the ROM argument is missing, with the interpreter
\* and every subsystem untouched; 0 when loadRom returns false, with no
\* subsystem initialised; 1 when SDL_Init, the window or the renderer fails;
\* 0 after the loop was left on a quit. The process ends otherwise only by the
\* std::exit(1) of an integrity fault of the interpreter: it ends in no other
\* way and with no other status.
C26_ExitStatus ==
  [][/\ (mainAt = "start" /\ loads' = 0) =>
          (mainReturn' = 1 /\ acquired' = << >> /\ UNCHANGED chipVars)
     /\ (mainAt = "start" /\ loadResult' = "false") =>
          (mainReturn' = 0 /\ mainAt' = "done" /\ acquired' = << >>)
     /\ StartupFails => mainReturn' = 1
     /\ (mainAt = "shutdown" /\ mainAt' = "done") => (mainReturn' = 0 /\ ~running)
     /\ mainReturn' \in { -1, 0, 1 }
     /\ mainReturn' # -1 => (mainAt' = "done" /\ proc' = "running")
     /\ proc' # "running" => (proc' = "exited" /\ exitCode' = 1 /\ mainReturn' = -1)]_vars

\* ------------------------------------------------------------ C28

\* the render step of a frame
RenderStep == mainAt = "redraw" /\ mainAt' = After("redraw")

\* C28: the render step of a frame redraws exactly when a CLS or a DXYN (N = 0
\* included) was executed in that frame; a redraw paints all 2048 cells from
\* the framebuffer and clears updateDisplayFlag. So at the end of every frame
\* updateDisplayFlag is false, and once a redraw has happened the image last
\* painted equals the framebuffer at the end of every frame.
C28_DisplayRefresh ==
  [][/\ RenderStep =>
          /\ frameRedrawn' = frameDrew
          /\ frameRedrawn' =>
               /\ Cardinality(DOMAIN screen') = FRAMEBUFFER_WIDTH * FRAMEBUFFER_HEIGHT
               /\ screen' = Drawn(Self)
          /\ ~frameRedrawn' => screen' = screen
          /\ ~updateDisplayFlag'
          /\ framebuffer' = framebuffer
     /\ (mainAt = "present" /\ mainAt' = FrameOrder[1]) =>
          /\ ~updateDisplayFlag
          /\ DOMAIN screen # {} => screen = Drawn(Self)]_vars

\* ------------------------------------------------------------ C30

\* a cycle() of the loop that returns
CycleReturns ==
  /\ mainAt = "cycles"
  /\ countInstruction' = countInstruction + 1
  /\ proc' = "running"

\* the instructions that leave PC at the address after them
StepsOver(op) ==
  /\ ~IsRET(op)
  /\ OpClass(op) \notin { 1, 2, 11, 3, 4, 5, 9, 14 }
  /\ ~IsLDK(op)

\* C30: a cycle() that fetches at address a executes the opcode
\* memory[a] * 256 + memory[a + 1], read before PC is advanced. For any
\* instruction other than RET, JP, CALL, JP V0, a conditional skip, a key skip
\* or FX0A it ends with PC = a + 2; JP NNN ends with PC = NNN and JP V0,NNN
\* with PC = V0 + NNN.
C30_PcStepping ==
  [][(CycleReturns /\ FetchInside) =>
       /\ opcode' = memory[PC] * 256 + memory[PC + 1]
       /\ StepsOver(opcode') => PC' = PC + 2
       /\ OpClass(opcode') = 1 => PC' = OpNNN(opcode')
       /\ OpClass(opcode') = 11 => PC' = registers[0] + OpNNN(opcode')]_vars

\* ------------------------------------------------------------ the key events

\* the keys held down at once
MaxKeysDown == 2

\* the sixteen keys of the pad, row by row
PadScancodes ==
  { "SDL_SCANCODE_1", "SDL_SCANCODE_2", "SDL_SCANCODE_3", "SDL_SCANCODE_4",
    "SDL_SCANCODE_Q", "SDL_SCANCODE_W", "SDL_SCANCODE_E", "SDL_SCANCODE_R",
    "SDL_SCANCODE_A", "SDL_SCANCODE_S", "SDL_SCANCODE_D", "SDL_SCANCODE_F",
    "SDL_SCANCODE_Z", "SDL_SCANCODE_X", "SDL_SCANCODE_C", "SDL_SCANCODE_V" }

\* keys that are not of the pad
OtherScancodes == { "SDL_SCANCODE_ESCAPE", "SDL_SCANCODE_P", "SDL_SCANCODE_5" }

\* the keys of the pad that are down
KeysDown == { k \in DOMAIN keyboard : keyboard[k] }

\* SDL_KEYDOWN or SDL_KEYUP polled, for any key of the keyboard
KeyPolled(scancode, down) ==
  /\ down => Cardinality(KeysDown) < MaxKeysDown
  /\ MainKey(scancode, down)

KeyFiles == { File("cls.ch8", TRUE, ClsRom) }

\* main from its start to the end of the first frame's event loop
KeysNext ==
  \/ \E file \in KeyFiles : MainLoad(file)
  \/ \E ok \in BOOLEAN : MainInit(ok)
  \/ \E ok \in BOOLEAN : MainWindow(ok)
  \/ \E ok \in BOOLEAN : MainRenderer(ok)
  \/ \E ok \in BOOLEAN : MainOpenAudio(ok)
  \/ MainTick
  \/ MainAudio
  \/ \E scancode \in PadScancodes \cup OtherScancodes, down \in BOOLEAN :
       KeyPolled(scancode, down)
  \/ MainQuit
  \/ \E escape \in BOOLEAN : MainDrained(escape)

SpecKeys == Init /\ [][KeysNext]_vars

\* ------------------------------------------------------------ C29

\* the documented table: 1 2 3 4 / Q W E R / A S D F / Z X C V give
\* 1 2 3 C / 4 5 6 D / 7 8 9 E / A 0 B F
Documented ==
  { << "SDL_SCANCODE_1", 1 >>, << "SDL_SCANCODE_2", 2 >>, << "SDL_SCANCODE_3", 3 >>,
    << "SDL_SCANCODE_4", 12 >>, << "SDL_SCANCODE_Q", 4 >>, << "SDL_SCANCODE_W", 5 >>,
    << "SDL_SCANCODE_E", 6 >>, << "SDL_SCANCODE_R", 13 >>, << "SDL_SCANCODE_A", 7 >>,
    << "SDL_SCANCODE_S", 8 >>, << "SDL_SCANCODE_D", 9 >>, << "SDL_SCANCODE_F", 14 >>,
    << "SDL_SCANCODE_Z", 10 >>, << "SDL_SCANCODE_X", 0 >>, << "SDL_SCANCODE_C", 11 >>,
    << "SDL_SCANCODE_V", 15 >> }

\* C29: keyboardMapping returns the documented code for each of the sixteen
\* keys of the pad and -1 for every other scancode; on the sixteen keys it is
\* one-to-one and onto 0..15. An event of the loop therefore writes keyboard[]
\* at the documented index of its key, with its down/up state, or, for a key
\* that is not of the pad, nowhere: never outside 0..15.
C29_KeyboardMapping ==
  [][/\ \A d \in Documented : keyboardMapping(d[1]) = d[2]
     /\ \A scancode \in OtherScancodes : keyboardMapping(scancode) = -1
     /\ { keyboardMapping(scancode) : scancode \in PadScancodes } = 0..15
     /\ \A a, b \in PadScancodes : keyboardMapping(a) = keyboardMapping(b) => a = b
     /\ DOMAIN keyboard' = 0..15
     /\ (mainAt = "events" /\ keyboard' # keyboard) =>
          \E d \in Documented :
            /\ keyboard'[d[2]] # keyboard[d[2]]
            /\ \A k \in 0..15 : k # d[2] => keyboard'[k] = keyboard[k]]_vars

\* the keys 4 and X are down: keyboard[0xC] and keyboard[0] alone are set
C29_Witness ==
  /\ mainAt = "events"
  /\ KeysDown = { 12, 0 }

\* ------------------------------------------------------------ memory[I + i]

\* I = 0xFFF + 34 = 4129, the high byte of I: FX55 with V0 = 0x2B makes
\* I = 0x2B21, 144 more make it 11185, where keyboard[1] lies; FX55 stores
\* V0 = 1 there and SKP V0 then skips
KeyStoreRom ==
  Prog(<< LDI(4095), LDB(0, 34), FX(0, 30), LDB(0, 43), FX(0, 85), LDB(0, 144),
          FX(0, 30), LDB(0, 1), FX(0, 85), Word(14, 0, 9, 14), JP(At(10)),
          JP(At(11)) >>)

\* I = 0xFFF + 31 = 4126, then the three digits of V0 = 255 stored at
\* memory[4126], memory[4127] and memory[4128], the low byte of I
BcdRom ==
  Prog(<< LDI(4095), LDB(0, 31), FX(0, 30), LDB(0, 255), FX(0, 51), JP(At(5)) >>)

\* the digits of V0 = 255 stored inside memory[], at 0x300
BcdInsideRom == Prog(<< LDI(768), LDB(0, 255), FX(0, 51), JP(At(3)) >>)

\* LD F, V0 with V0 = 255, then with V0 = 15
FontRom == Prog(<< LDB(0, 255), FX(0, 41), LDB(0, 15), FX(0, 41), JP(At(4)) >>)

\* as KeyStoreRom, with I = 0x2B21 + 163 = 11204, where pressedKey lies: FX55
\* with x = 3 stores 5, 0, 0, 0 there, and LD V4, K follows
LatchRom ==
  Prog(<< LDI(4095), LDB(0, 34), FX(0, 30), LDB(0, 43), FX(0, 85), LDB(0, 163),
          FX(0, 30), LDB(0, 5), FX(3, 85), FX(4, 10), JP(At(10)) >>)

\* V0 = 1 stored at memory[0x50], the first byte of the font; V0, V1 stored at
\* 0x300 and loaded back
FontStoreRom ==
  Prog(<< LDI(80), LDB(0, 1), FX(0, 85), LDI(768), LDB(1, 7), FX(1, 85), LDB(0, 0),
          LDB(1, 0), FX(1, 101), JP(At(9)) >>)

MemRoms ==
  { KeyStoreRom, BcdRom, BcdInsideRom, FontRom, LatchRom, FontStoreRom, FlagRom }

\* the key whose events reach these programs
MemKeys == { 1 }

MemNext ==
  \/ \E rom \in MemRoms : LoadRom(File("rom.ch8", TRUE, rom))
  \/ Cycle
  \/ \E key \in MemKeys, down \in BOOLEAN : KeyEvent(key, down)

SpecMem == Init /\ [][MemNext]_vars

\* ------------------------------------------------------------ C31

IsSKP(op) == OpClass(op) = 14 /\ OpKK(op) = 158

IsSKNP(op) == OpClass(op) = 14 /\ OpKK(op) = 161

\* C31: a cycle of SKP Vx fetched at a ends with PC = a + 4 if
\* keyboard[Vx mod 16] is pressed and with PC = a + 2 if not; a cycle of SKNP Vx
\* the other way round; the index Vx mod 16 is in 0..15 for every Vx; and no
\* cycle() changes keyboard[].
C31_KeySkips ==
  [][(Cycle /\ FetchInside) =>
       LET op == Fetched
           key == registers[OpX(op)] % 16
       IN /\ key \in 0..15
          /\ IsSKP(op) => PC' = PC + 2 + (IF keyboard[key] THEN 2 ELSE 0)
          /\ IsSKNP(op) => PC' = PC + 2 + (IF keyboard[key] THEN 0 ELSE 2)
          /\ keyboard' = keyboard]_vars

\* ------------------------------------------------------------ C32

IsDump(op) == OpClass(op) = 15 /\ OpKK(op) = 85

IsFill(op) == OpClass(op) = 15 /\ OpKK(op) = 101

\* C32: a cycle of LD [I], Vx copies V0..Vx to memory[I..I + x] and a cycle of
\* LD Vx, [I] copies memory[I..I + x] to V0..Vx, index x included; both leave
\* I unchanged, the first leaves the registers and the memory outside
\* I..I + x unchanged, the second the memory and the registers above Vx.
C32_DumpAndLoad ==
  [][(Cycle /\ FetchInside) =>
       LET op == Fetched
           x == OpX(op)
       IN /\ IsDump(op) =>
               /\ I' = I
               /\ registers' = registers
               /\ \A a \in 0..(MEMORY_SIZE - 1) :
                    memory'[a] = IF a >= I /\ a <= I + x THEN registers[a - I]
                                 ELSE memory[a]
          /\ IsFill(op) =>
               /\ I' = I
               /\ memory' = memory
               /\ \A i \in 0..(NUM_REGISTERS - 1) :
                    registers'[i] = IF i <= x /\ I + i < MEMORY_SIZE THEN memory[I + i]
                                    ELSE IF i <= x THEN registers'[i]
                                    ELSE registers[i]]_vars

\* ------------------------------------------------------------ C33

IsBCD(op) == OpClass(op) = 15 /\ OpKK(op) = 51

\* C33: a cycle of LD B, Vx with Vx = v writes three decimal digits, the most
\* significant first: memory[I] * 100 + memory[I + 1] * 10 + memory[I + 2] = v;
\* Vx, I and every other byte of memory are unchanged.
C33_Bcd ==
  [][(Cycle /\ FetchInside /\ IsBCD(Fetched)) =>
       LET v == registers[OpX(Fetched)]
       IN /\ I' = I
          /\ registers' = registers
          /\ \A a \in 0..(MEMORY_SIZE - 1) : (a < I \/ a > I + 2) => memory'[a] = memory[a]
          /\ I + 2 < MEMORY_SIZE =>
               /\ \A i \in 0..2 : memory'[I + i] \in 0..9
               /\ memory'[I] * 100 + memory'[I + 1] * 10 + memory'[I + 2] = v]_vars

\* ------------------------------------------------------------ C34

IsLDF(op) == OpClass(op) = 15 /\ OpKK(op) = 41

\* C34: a cycle of LD F, Vx ends with I = 0x50 + 5 * Vx and 0x50 <= I <= 0x9B,
\* so that the five bytes I..I + 4 lie in the font region 0x50..0x9F, whatever
\* Vx holds.
C34_FontPointer ==
  [][(Cycle /\ FetchInside /\ IsLDF(Fetched)) =>
       /\ I' = FONTSET_START_ADDRESS + 5 * registers[OpX(Fetched)]
       /\ I' >= FONTSET_START_ADDRESS
       /\ I' + 4 < FONTSET_START_ADDRESS + FONTSET_SIZE]_vars

\* ------------------------------------------------------------ C35

\* C35: every cycle() fetches inside memory[] (PC + 1 <= 0xFFF), and the
\* addresses it reads or writes through I are inside it: I..I + N - 1 for
\* DRW with N rows, I..I + 2 for LD B, I..I + x for LD [I], Vx and LD Vx, [I].
C35_MemoryInBounds ==
  [][Cycle =>
       /\ FetchInside
       /\ (IsDRW(Fetched) /\ OpN(Fetched) > 0) => I + OpN(Fetched) - 1 < MEMORY_SIZE
       /\ IsBCD(Fetched) => I + 2 < MEMORY_SIZE
       /\ (IsDump(Fetched) \/ IsFill(Fetched)) => I + OpX(Fetched) < MEMORY_SIZE]_vars

\* ------------------------------------------------------------ C36

\* C36: pressedKey is always in -1..15; a step changes it only if it is a
\* cycle of LD Vx, K; and while a key is latched PC points at an LD Vx, K.
C36_KeyLatch ==
  [][/\ pressedKey' >= -1
     /\ pressedKey' <= 15
     /\ pressedKey' # pressedKey => (Cycle /\ FetchInside /\ IsLDK(Fetched))
     /\ pressedKey' # -1 =>
          /\ PC' + 1 < MEMORY_SIZE
          /\ IsLDK(memory'[PC'] * 256 + memory'[PC' + 1])]_vars

\* ------------------------------------------------------------ C39

\* the addresses of the font table
FontRegion == FONTSET_START_ADDRESS..(FONTSET_START_ADDRESS + FONTSET_SIZE - 1)

\* memory[0x50..0x9F] holds the font table as the constructor copied it
FontInPlace(mem) == \A a \in FontRegion : mem[a] = fontset[a - FONTSET_START_ADDRESS + 1]

\* C39: in every reachable state memory[0x50..0x9F] equals the font table
\* copied at construction.
C39_FontPermanent == FontInPlace(memory)

\* C39, amended: the font table is in place after construction and after
\* loadRom; a step changes a byte of memory[0x50..0x9F] only if it is a cycle
\* of LD B, Vx or of LD [I], Vx and the byte is one the instruction stores to
\* (I..I + 2, I..I + x). Such a program does change the table.
C39_FontKept ==
  [][/\ loads' # loads => FontInPlace(memory')
     /\ \A a \in FontRegion :
          memory'[a] # memory[a] =>
            /\ Cycle
            /\ FetchInside
            /\ IsBCD(Fetched) \/ IsDump(Fetched)
            /\ a >= I
            /\ a <= I + (IF IsBCD(Fetched) THEN 2 ELSE OpX(Fetched))]_vars

\* LD [I], V0 with I = 0x50 has replaced the first byte of the glyph of 0 and
\* left the second
C39_Witness ==
  /\ IsDump(opcode)
  /\ I = FONTSET_START_ADDRESS
  /\ memory[FONTSET_START_ADDRESS] = 1
  /\ memory[FONTSET_START_ADDRESS + 1] = fontset[2]

\* ------------------------------------------------------------ programs in the loop

\* the sound timer set to n by the first frame's instructions, once
BeepRomOf(n) == Prog(<< LDB(0, n), FX(0, 24), JP(At(2)) >>)

\* the delay timer set to 1 by LD DT, V1, once; then I = 0xFFF + 38 = 4133,
\* where delayTimer lies, and LD [I], V0 storing V0 = 5 there, again and again
DelayRom ==
  Prog(<< LDB(1, 1), FX(1, 21), LDI(4095), LDB(0, 38), FX(0, 30), LDB(0, 5),
          FX(0, 85), JP(At(6)) >>)

LoopFiles ==
  { File("key.ch8", TRUE, KeyRom), File("beep1.ch8", TRUE, BeepRomOf(1)),
    File("beep2.ch8", TRUE, BeepRomOf(2)), File("beep3.ch8", TRUE, BeepRomOf(3)),
    File("delay.ch8", TRUE, DelayRom) }

\* the key whose events the loop is given
LoopScancodes == { "SDL_SCANCODE_3" }

LoopNext ==
  \/ \E file \in LoopFiles : MainLoad(file)
  \/ \E ok \in BOOLEAN : MainInit(ok)
  \/ \E ok \in BOOLEAN : MainWindow(ok)
  \/ \E ok \in BOOLEAN : MainRenderer(ok)
  \/ \E ok \in BOOLEAN : MainOpenAudio(ok)
  \/ MainTick
  \/ MainAudio
  \/ \E scancode \in LoopScancodes, down \in BOOLEAN : MainKey(scancode, down)
  \/ MainQuit
  \/ \E escape \in BOOLEAN : MainDrained(escape)
  \/ MainCycle
  \/ MainRedraw
  \/ MainPresent
  \/ MainShutdown

SpecLoop == Init /\ [][LoopNext]_vars

\* ------------------------------------------------------------ LD Vx, K in the loop

\* LD Vx, K is the instruction at PC: the program waits for a key
WaitsForKey == FetchInside /\ IsLDK(Fetched)

\* C37: a key pressed and released while LD Vx, K waits completes the
\* instruction with that key. LD Vx, K completes only for the key it has
\* latched in pressedKey, and it latches only a key it finds down; so the
\* release that the driver delivers while the program waits must find its key
\* latched, whenever the two events come.
C37_TapCompletes ==
  [][\A k \in 0..15 :
       (mainAt = "events" /\ WaitsForKey /\ keyboard[k] /\ ~keyboard'[k])
         => pressedKey = k]_vars

\* ------------------------------------------------------------ LD ST, Vx in the loop

BeepNames == { "beep1.ch8", "beep2.ch8", "beep3.ch8" }

\* the pass has written audioPlaying and has not left the loop
GateWritten == mainAt \in { "events", "cycles", "redraw", "present" }

\* C38: LD ST, Vx with Vx = n >= 1 in pass 1, the sound timer not written
\* again: audioPlaying is true in the n passes that follow, 2 .. n + 1.
C38_EveryRequestAudible ==
  (filename \in BeepNames /\ GateWritten /\ countTick >= 2
     /\ countTick <= registers[0] + 1)
    => audioPlaying

\* C38, amended: the pass's tick comes before its write of audioPlaying, so the
\* n passes that follow the request tick the timer to n - 1, .., 0 before they
\* write: audioPlaying is true in passes 2 .. n, which are n - 1 passes, and in
\* no other; a request of 1 is never audible.
C38_AudibleBelowRequest ==
  (filename \in BeepNames /\ GateWritten)
    => (audioPlaying <=> (countTick >= 2 /\ countTick <= registers[0]))

\* the second and last audible pass of a request of 3
C38_Witness ==
  /\ filename = "beep3.ch8"
  /\ registers[0] = 3
  /\ countTick = 3
  /\ mainAt = "present"
  /\ soundTimer = 1
  /\ audioPlaying

\* ------------------------------------------------------------ LD DT, Vx in the loop

\* C40: in the loop every pass's tick takes 1 off a delay timer above 0 and
\* leaves a delay timer of 0 alone, and no other step than a cycle of LD DT, Vx
\* changes the delay timer; hence n passes after the last LD DT, Vx wrote n the
\* timer is 0, and it stays 0.
C40_DelayRunsDown ==
  [][/\ (mainAt = "tick" /\ mainAt' # "tick")
          => delayTimer' = (IF delayTimer > 0 THEN delayTimer - 1 ELSE 0)
     /\ (mainAt # "tick" /\ delayTimer' # delayTimer)
          => (mainAt = "cycles" /\ FetchInside /\ IsLDDT(Fetched))]_vars

====
